---- MODULE Spec2Model ----
(***************************************************************************)
(* A model of the Go binding of the tree-sitter incremental parser: the    *)
(* Parser object (language, included ranges, cancellation flag, timeout    *)
(* and the suspended state of a halted parse), the parse call, which runs  *)
(* token by token so that another thread can act while it runs, and the    *)
(* Tree object with its Clone, Edit and Close over shared subtrees.        *)
(*                                                                         *)
(* The Go methods are translated from parser.go, tree.go, ranges.go and    *)
(* edit.go.  The native engine they call (the ts_parser, ts_tree and       *)
(* ts_subtree functions) is not among the Go sources; it is modelled from  *)
(* the specification of the engine and marked as such.                     *)
(***************************************************************************)
EXTENDS Integers, Sequences, FiniteSets, TLC

VARIABLES
    language,           \* TSParser.language: NoLanguage or a language name
    included_ranges,    \* TSParser lexer included ranges (uint32 fields)
    cancellation_flag,  \* TSParser.cancellation_flag: NULL or the address of flag
    timeout_micros,     \* TSParser.timeout_duration
    stack,              \* tokens of the suspended / running parse
    position,           \* byte offset the lexer is at
    canceled_balancing, \* the parse was halted in its final balancing pass
    flag,               \* the uintptr cell the caller shares with other threads
    pc,                 \* where the running parse call is: idle, lex, checkpoint, balance
    call_input,         \* the input callback of the running call
    call_options,       \* the ParseOptions of the running call
    result,             \* what the last operation returned
    since,              \* what happened to the parser since its last parse call
    call_origin,        \* value of since when the running / last call began
    halt_stack,         \* tokens consumed when the last halted call stopped
    halt_pos,           \* byte offset at which the last halted call stopped
    halt_cause,         \* why the last call halted
    reads,              \* byte offsets the running / last call asked its input for
    arg_ranges,         \* the []Range argument of the pending SetIncludedRanges call
    heap,               \* the subtrees the engine has allocated, by address
    ctrees,             \* the TSTree objects: the address of each one's root
    trees,              \* the Go Tree values: the TSTree each holds in _inner
    edits,              \* number of Tree.Edit calls made
    threads,            \* the goroutines of a test: each one's tree, text and position
    arg_edit,           \* the *InputEdit argument of the pending Tree.Edit call
    cursor,             \* the QueryCursor: its settings and the execution it runs
    arg_source          \* the source argument of the pending NewQuery call

vars == <<language, included_ranges, cancellation_flag, timeout_micros, stack,
          position, canceled_balancing, flag, pc, call_input, call_options,
          result, since, call_origin, halt_stack, halt_pos, halt_cause, reads,
          arg_ranges, heap, ctrees, trees, edits, threads, arg_edit,
          cursor, arg_source>>

parserVars == <<language, included_ranges, cancellation_flag, timeout_micros,
                stack, position, canceled_balancing>>
treeVars == <<heap, ctrees, trees, edits>>
testVars == <<threads, arg_edit, cursor, arg_source>>
callVars == <<pc, call_input, call_options, call_origin, halt_stack, halt_pos,
              halt_cause, reads>>

-----------------------------------------------------------------------------
(* Bounds of the model.                                                    *)

\* longest text handed to a parse call
MaxLen == 2
\* number of bits of the modelled uint32_t (stands for 32)
Uint32Bits == 3
\* most ranges in one SetIncludedRanges argument
MaxRanges == 2
\* Go Tree values alive at once, and the largest byte offset of an edit.
MaxTrees == 2
MaxEditByte == 1
\* most Tree.Edit calls in one behaviour
MaxEdits == 2
\* threads that reparse a clone of one tree at the same time
MaxThreads == 2
\* most predicate steps of the source of one query
MaxSteps == 5
\* most bytes of the text of the source of one query
MaxSource == 3
\* most nodes below the root of the tree a tree cursor walks
MaxNodes == 3
\* most ParseCtx or ParseWithOptions calls in one behaviour
MaxCalls == 2
\* most chunks the engine reads in one ParseWithOptions call
MaxChunks == 2
\* most buffers the engine allocates in one ParseWithOptions call
MaxAllocs == 1

-----------------------------------------------------------------------------
(* Values.                                                                 *)

NoLanguage == "nil"
NULL == [kind |-> "NULL"]
\* &flag: the address of the shared flag cell
FlagPtr == [kind |-> "ptr", to |-> "flag"]
Nil == [kind |-> "nil"]
None == [op |-> "none"]

UINT32_MAX == (2 ^ Uint32Bits) - 1

\* C.uint32_t(x): conversion of a Go uint to uint32_t keeps the low bits.
uint32_t(x) == x % (2 ^ Uint32Bits)

Bytes == {"a", "b"}

RECURSIVE SeqsUpTo(_, _)
SeqsUpTo(S, n) ==
    IF n = 0 THEN {<<>>}
    ELSE LET shorter == SeqsUpTo(S, n - 1)
         IN shorter \cup {Append(s, x) : s \in {t \in shorter : Len(t) = n - 1}, x \in S}

Texts == SeqsUpTo(Bytes, MaxLen)

\* The grammars: name, ABI version and the bytes that are tokens of the grammar.
Languages ==
    { [name |-> "json",       abi |-> 13, tokens |-> {"a"}],
      [name |-> "javascript", abi |-> 15, tokens |-> {"a", "b"}],
      [name |-> "ancient",    abi |-> 12, tokens |-> {"a"}],
      [name |-> "future",     abi |-> 16, tokens |-> {"a"}] }

LanguageNamed(n) == CHOOSE l \in Languages : l.name = n

MIN_COMPATIBLE_LANGUAGE_VERSION == 13
LANGUAGE_VERSION == 15

-----------------------------------------------------------------------------
(* The text source of a parse call.                                        *)

\* Parser.Parse wraps a byte slice in a callback; the tests also parse an
\* input that never ends (every offset yields more text).
Inputs == {[kind |-> "slice", text |-> t] : t \in Texts} \cup {[kind |-> "endless"]}

\* The closure Parser.Parse builds: text[i:] while i < len(text), else empty.
ParseCallback(text, i) ==
    IF i < Len(text) THEN SubSeq(text, i + 1, Len(text)) ELSE <<>>

\* Callbacks that hand out a text byte by byte and return an empty chunk
\* from the offset end on, where the text may go on.
CallbackInputs ==
    {[kind |-> "callback", text |-> t, end |-> e] : t \in Texts, e \in 0..MaxLen}

\* The caller's input callback.
callback(input, i) ==
    CASE input.kind = "slice" -> ParseCallback(input.text, i)
      [] input.kind = "callback" ->
           IF i >= input.end \/ i >= Len(input.text)
           THEN <<>>
           ELSE <<input.text[i + 1]>>
      [] OTHER -> <<"a">>

\* A readUTF8 that counts the terminator of the C string into bytesRead.
readUTF8_terminated(input, byteIndex) == callback(input, byteIndex) \o <<"0">>

\* readUTF8: asks the callback for the chunk at byteIndex and hands it to the lexer.
readUTF8(input, byteIndex) == callback(input, byteIndex)

-----------------------------------------------------------------------------
(* The lexer and the included ranges.                                      *)

DEFAULT_RANGE == <<[start_byte |-> 0, end_byte |-> UINT32_MAX]>>

InRanges(rs, p) ==
    \E i \in 1..Len(rs) : rs[i].start_byte <= p /\ p < rs[i].end_byte

\* The first offset at or after p that lies in an included range, or -1.
NextIncluded(rs, p) ==
    LET qs == {q \in p..UINT32_MAX : InRanges(rs, q)}
    IN IF qs = {} THEN -1 ELSE CHOOSE q \in qs : \A r \in qs : q <= r

\* The token the lexer makes of one byte under a grammar: a byte the grammar
\* has no token for becomes an ERROR node covering exactly that byte.
Token(lang, byte, p) ==
    [kind |-> IF byte \in LanguageNamed(lang).tokens THEN byte ELSE "ERROR",
     start_byte |-> p, end_byte |-> p + 1]

\* Tokens of an endless input are counted up to here; beyond it the parse
\* goes on without growing the modelled stack.
MaxTokens == MaxLen + 1

-----------------------------------------------------------------------------
(* The native parser object.                                               *)

\* ts_parser_reset: drops the suspended parse.
ts_parser_reset ==
    /\ stack' = <<>>
    /\ position' = 0
    /\ canceled_balancing' = FALSE

\* ts_parser_set_language: resets the parser, then stores the language.
ts_parser_set_language(l) ==
    /\ ts_parser_reset
    /\ language' = l.name

\* The progress callback of ParseOptions: "signal" reads the shared flag cell,
\* "timer" compares the wall clock with a deadline (elapsed is that comparison).
ProgressCallback(options, elapsed) ==
    CASE options = "signal" -> flag # 0
      [] options = "timer"  -> elapsed
      [] OTHER              -> FALSE

\* A forwarder that drops the callback's answer.
parserProgressCallback_drop(options, elapsed) == FALSE

\* parserProgressCallback: forwards the engine's checkpoint to the Go callback.
parserProgressCallback(options, elapsed) == ProgressCallback(options, elapsed)

\* Why the engine halts at a checkpoint, or "none".
HaltCause(options, elapsed) ==
    CASE cancellation_flag # NULL /\ flag # 0             -> "flag"
      [] timeout_micros # 0 /\ elapsed                    -> "timeout"
      [] options # "nil" /\ parserProgressCallback(options, elapsed) -> "callback"
      [] OTHER                                            -> "none"

\* newTree / the nil result of a parse call.
newTree(cTree) == cTree

\* A tail that also answers nil for a tree that holds an ERROR node.
ParseResult_strict(cNewTree) ==
    IF cNewTree # NULL /\ \A i \in 1..Len(cNewTree.nodes) : cNewTree.nodes[i].kind # "ERROR"
    THEN newTree(cNewTree)
    ELSE Nil

\* The tail of ParseWithOptions: a native tree is wrapped, NULL becomes nil.
ParseResult(cNewTree) == IF cNewTree # NULL THEN newTree(cNewTree) ELSE Nil

\* The tree the engine returns when it reaches the end of the input.
ts_tree_new ==
    [kind |-> "tree", language |-> language, nodes |-> stack,
     included_ranges |-> included_ranges]

-----------------------------------------------------------------------------
(* History kept for the properties: what has happened to the parser since  *)
(* a parse call last halted.                                               *)

NoHistory == [halted |-> FALSE, balancing |-> FALSE, reset |-> FALSE, setlang |-> FALSE]

\* The values a finished call leaves behind are dropped by the next operation.
NoCall ==
    /\ call_input' = None
    /\ call_options' = "nil"
    /\ call_origin' = NoHistory
    /\ reads' = {}

\* The parser is suspended on a halted parse that nothing has discarded.
Suspended == since.halted /\ ~since.reset /\ ~since.setlang

\* What the last halt left is kept while the parser is suspended on it.
KeepHalt(keep) ==
    IF keep
    THEN UNCHANGED <<halt_stack, halt_pos, halt_cause>>
    ELSE halt_stack' = <<>> /\ halt_pos' = 0 /\ halt_cause' = "none"

\* Trees and the addresses of the engine's heap.
Handles == 1..MaxTrees
Subtrees == 1..(MaxTrees * (MaxLen + 1))

NoTree == 0
\* A TSTree: the address of its root; memory never used; a freed TSTree.
TSTree(root) == [root |-> root, live |-> TRUE, freed |-> FALSE]
NoTSTree == [root |-> 0, live |-> FALSE, freed |-> FALSE]
FreedTSTree == [root |-> 0, live |-> FALSE, freed |-> TRUE]
FreeSubtree ==
    [ref_count |-> 0, symbol |-> "", padding |-> 0, size |-> 0,
     has_changes |-> FALSE, children |-> <<>>]

\* No tree has been made.
NoTrees ==
    /\ heap = [id \in Subtrees |-> FreeSubtree]
    /\ ctrees = [c \in Handles |-> NoTSTree]
    /\ trees = [t \in Handles |-> NoTree]
    /\ edits = 0

\* No test is running.
NoTests ==
    threads = <<>> /\ arg_edit = None /\ cursor = None /\ arg_source = None

InitParser ==
    /\ language = NoLanguage
    /\ included_ranges = DEFAULT_RANGE
    /\ cancellation_flag = NULL
    /\ timeout_micros = 0
    /\ stack = <<>>
    /\ position = 0
    /\ canceled_balancing = FALSE
    /\ flag = 0
    /\ pc = "idle"
    /\ call_input = None
    /\ call_options = "nil"
    /\ result = None
    /\ since = NoHistory
    /\ call_origin = NoHistory
    /\ halt_stack = <<>>
    /\ halt_pos = 0
    /\ halt_cause = "none"
    /\ reads = {}

Init == InitParser /\ arg_ranges = <<>> /\ NoTrees /\ NoTests

-----------------------------------------------------------------------------
(* Parser.SetLanguage and Parser.Language.                                 *)

LanguageError(version) == [kind |-> "LanguageError", version |-> version]

\* A version check that leaves out the oldest compatible version.
VersionCompatible_strict(version) ==
    version > MIN_COMPATIBLE_LANGUAGE_VERSION /\ version <= LANGUAGE_VERSION

\* The version test of SetLanguage.
VersionCompatible(version) ==
    version >= MIN_COMPATIBLE_LANGUAGE_VERSION /\ version <= LANGUAGE_VERSION

\* An assignment that stores the language and keeps the suspended parse.
AssignLanguage_noreset(l) ==
    /\ language' = l.name
    /\ UNCHANGED <<stack, position, canceled_balancing>>

\* The accepting branch of SetLanguage: the language goes to the engine.
AssignLanguage(l) == ts_parser_set_language(l)

\* A rejection that hands the language to the engine all the same, which
\* drops the suspended parse and the language the parser had.
RejectLanguage_clears ==
    /\ ts_parser_reset
    /\ language' = NoLanguage

\* The rejecting branch of SetLanguage: the engine is not called.
RejectLanguage == UNCHANGED <<language, stack, position, canceled_balancing>>

SetLanguage(l) ==
    /\ pc = "idle"
    /\ LET version == l.abi
       IN IF VersionCompatible(version)
          THEN /\ AssignLanguage(l)
               /\ result' = [op |-> "SetLanguage", arg |-> l.name, err |-> Nil]
               /\ since' = [since EXCEPT !.setlang = since.halted]
               /\ KeepHalt(FALSE)
          ELSE /\ RejectLanguage
               /\ result' = [op |-> "SetLanguage", arg |-> l.name,
                             err |-> LanguageError(version)]
               /\ KeepHalt(Suspended)
               /\ UNCHANGED since
    /\ NoCall
    /\ UNCHANGED <<included_ranges, cancellation_flag, timeout_micros, flag, pc,
                   arg_ranges, treeVars, testVars>>

\* Parser.Language(): nil when the parser holds no language.
Language == IF language = NoLanguage THEN Nil ELSE [kind |-> "Language", name |-> language]

-----------------------------------------------------------------------------
(* Parser.Reset, Parser.SetTimeoutMicros, Parser.SetCancellationFlag.      *)

\* A Reset that does not reach the engine.
Reset_noop ==
    /\ pc = "idle"
    /\ result' = None
    /\ since' = [since EXCEPT !.reset = since.halted]
    /\ KeepHalt(FALSE)
    /\ NoCall
    /\ UNCHANGED <<parserVars, flag, pc, arg_ranges, treeVars, testVars>>

Reset ==
    /\ pc = "idle"
    /\ ts_parser_reset
    /\ result' = None
    /\ since' = [since EXCEPT !.reset = since.halted]
    /\ KeepHalt(FALSE)
    /\ NoCall
    /\ UNCHANGED <<language, included_ranges, cancellation_flag, timeout_micros,
                   flag, pc, arg_ranges, treeVars, testVars>>

SetTimeoutMicros(timeoutMicros) ==
    /\ pc = "idle"
    /\ timeout_micros' = timeoutMicros
    /\ result' = None
    /\ KeepHalt(Suspended)
    /\ NoCall
    /\ UNCHANGED <<language, included_ranges, cancellation_flag, stack, position,
                   canceled_balancing, flag, pc, since, arg_ranges, treeVars, testVars>>

\* Parser.CancellationFlag(): the pointer the parser holds.
CancellationFlag == cancellation_flag

SetCancellationFlag(ptr) ==
    /\ pc = "idle"
    /\ cancellation_flag' = ptr
    /\ result' = None
    /\ KeepHalt(Suspended)
    /\ NoCall
    /\ UNCHANGED <<language, included_ranges, timeout_micros, stack, position,
                   canceled_balancing, flag, pc, since, arg_ranges, treeVars, testVars>>

\* Another thread stores 1 to the shared flag cell, at any time, also while
\* a parse call runs.
CancelFromOtherThread ==
    /\ flag = 0
    /\ flag' = 1
    /\ UNCHANGED <<parserVars, callVars, result, since, arg_ranges, treeVars, testVars>>

\* The caller stores 0 to the flag cell between two calls.
ClearFlag ==
    /\ pc = "idle"
    /\ flag # 0
    /\ flag' = 0
    /\ result' = None
    /\ KeepHalt(Suspended)
    /\ NoCall
    /\ UNCHANGED <<parserVars, pc, since, arg_ranges, treeVars, testVars>>

-----------------------------------------------------------------------------
(* Parser.SetIncludedRanges and Parser.IncludedRanges.                     *)

IncludedRangesError(index) == [kind |-> "IncludedRangesError", index |-> index]

\* The range list the engine accepts: every range starts at or after the end
\* of the one before it and does not end before it starts.
ts_ranges_valid(tsRanges) ==
    \A i \in 1..Len(tsRanges) :
        /\ tsRanges[i].start_byte >= (IF i = 1 THEN 0 ELSE tsRanges[i - 1].end_byte)
        /\ tsRanges[i].end_byte >= tsRanges[i].start_byte

\* ts_parser_set_included_ranges: stores a valid list (the whole document for
\* an empty one) and reports whether it did.
ts_parser_set_included_ranges(tsRanges) ==
    IF ts_ranges_valid(tsRanges)
    THEN IF Len(tsRanges) = 0 THEN DEFAULT_RANGE ELSE tsRanges
    ELSE included_ranges

\* The conversion loop at the head of SetIncludedRanges.
ToTSRanges(ranges) ==
    [i \in 1..Len(ranges) |->
        [start_byte |-> uint32_t(ranges[i].StartByte),
         end_byte   |-> uint32_t(ranges[i].EndByte)]]

\* The loop at the tail of SetIncludedRanges: the first range that starts
\* before the end of its predecessor or ends before it starts; 0 when the
\* loop finds none.
FirstIncorrectRange(ranges) ==
    LET bad == {i \in 1..Len(ranges) :
                   \/ ranges[i].StartByte < (IF i = 1 THEN 0 ELSE ranges[i - 1].EndByte)
                   \/ ranges[i].EndByte < ranges[i].StartByte}
    IN IF bad = {} THEN 0 ELSE (CHOOSE i \in bad : \A j \in bad : i <= j) - 1

\* A wrapper that, when the engine rejects the list, hands it the ranges
\* before the incorrect one.
StoredRanges_retry(ranges) ==
    IF ts_ranges_valid(ToTSRanges(ranges))
    THEN ts_parser_set_included_ranges(ToTSRanges(ranges))
    ELSE ts_parser_set_included_ranges(
             ToTSRanges(SubSeq(ranges, 1, FirstIncorrectRange(ranges))))

\* The one call SetIncludedRanges makes into the engine: what the parser
\* holds after it.
StoredRanges(ranges) == ts_parser_set_included_ranges(ToTSRanges(ranges))

SetIncludedRanges(ranges) ==
    /\ pc = "idle"
    /\ LET tsRanges == ToTSRanges(ranges)
           accepted == ts_ranges_valid(tsRanges)
       IN /\ included_ranges' = StoredRanges(ranges)
          /\ result' = [op |-> "SetIncludedRanges", arg |-> ranges,
                        err |-> IF accepted THEN Nil
                                ELSE IncludedRangesError(FirstIncorrectRange(ranges))]
    /\ KeepHalt(Suspended)
    /\ NoCall
    /\ UNCHANGED <<language, cancellation_flag, timeout_micros, stack, position,
                   canceled_balancing, flag, pc, since, arg_ranges, treeVars, testVars>>

\* Parser.IncludedRanges(): the list the parser holds, as Go ranges.
IncludedRanges ==
    [i \in 1..Len(included_ranges) |->
        [StartByte |-> included_ranges[i].start_byte,
         EndByte   |-> included_ranges[i].end_byte]]

-----------------------------------------------------------------------------
(* The parse call: Parser.ParseWithOptions and the engine's parse loop.    *)

\* The engine refuses to parse when the parser holds no language: the call
\* returns NULL at once.
ts_parser_refuses == language = NoLanguage

\* A call that resets the parser before it enters the engine.
EnterEngine_reset == ts_parser_reset

\* The call into the engine (ts_parser_parse_with_options) with the parser as
\* the earlier calls left it.
EnterEngine == UNCHANGED <<stack, position, canceled_balancing>>

\* ParseWithOptions up to the point where the engine starts to lex.  A parser
\* with a suspended parse goes on from it, any other starts at offset 0 with
\* an empty stack.
ParseWithOptions(input, options) ==
    /\ pc = "idle"
    /\ call_input' = input
    /\ call_options' = options
    /\ call_origin' = since
    /\ reads' = {}
    /\ EnterEngine
    /\ IF ts_parser_refuses
       THEN /\ result' = [op |-> "Parse", tree |-> ParseResult(NULL)]
            /\ pc' = "idle"
       ELSE /\ result' = None
            /\ pc' = IF canceled_balancing' THEN "balance" ELSE "lex"
    /\ KeepHalt(Suspended)
    /\ UNCHANGED <<language, included_ranges, cancellation_flag, timeout_micros,
                   flag, since, arg_ranges, treeVars, testVars>>

\* Parser.Parse(text, oldTree): ParseWithOptions on the slice, without options.
Parse(text) == ParseWithOptions([kind |-> "slice", text |-> text], "nil")

\* One token: the lexer moves to the next included offset, asks readUTF8 for
\* the chunk there and turns its first byte into a token; an empty chunk, or
\* no included offset left, ends the input.
LexToken ==
    /\ pc = "lex"
    /\ LET q == NextIncluded(included_ranges, position)
           chunk == IF q = -1 THEN <<>> ELSE readUTF8(call_input, q)
       IN /\ reads' = IF q = -1 THEN reads ELSE reads \cup {q}
          /\ IF chunk = <<>>
             THEN /\ pc' = "balance"
                  /\ UNCHANGED <<stack, position>>
             ELSE /\ pc' = "checkpoint"
                  /\ IF Len(stack) < MaxTokens
                     THEN /\ stack' = Append(stack, Token(language, chunk[1], q))
                          /\ position' = q + 1
                     ELSE UNCHANGED <<stack, position>>
    /\ UNCHANGED <<language, included_ranges, cancellation_flag, timeout_micros,
                   canceled_balancing, flag, call_input, call_options,
                   call_origin, result, since, halt_stack, halt_pos, halt_cause,
                   arg_ranges, treeVars, testVars>>

\* The parse call halts: it returns no tree and the parser keeps what it has.
Halt(cause, inBalancing) ==
    /\ result' = [op |-> "Parse", tree |-> ParseResult(NULL)]
    /\ pc' = "idle"
    /\ canceled_balancing' = inBalancing
    /\ halt_stack' = stack
    /\ halt_pos' = position
    /\ halt_cause' = cause
    /\ since' = [halted |-> TRUE, balancing |-> inBalancing, reset |-> FALSE,
                 setlang |-> FALSE]
    /\ UNCHANGED <<stack, position>>

\* The checkpoint after a token.
Checkpoint ==
    /\ pc = "checkpoint"
    /\ \E elapsed \in BOOLEAN :
          LET cause == HaltCause(call_options, elapsed)
          IN IF cause # "none"
             THEN Halt(cause, FALSE)
             ELSE /\ pc' = "lex"
                  /\ UNCHANGED <<stack, position, canceled_balancing, result,
                                 since, halt_stack, halt_pos, halt_cause>>
    /\ UNCHANGED <<language, included_ranges, cancellation_flag, timeout_micros,
                   flag, call_input, call_options, call_origin, reads, arg_ranges, treeVars, testVars>>

\* The final balancing pass, with its checkpoint; then the tree is returned
\* and the parser is reset for the next document.
Balance ==
    /\ pc = "balance"
    /\ \E elapsed \in BOOLEAN :
          LET cause == HaltCause(call_options, elapsed)
          IN IF cause # "none"
             THEN Halt(cause, TRUE)
             ELSE /\ result' = [op |-> "Parse", tree |-> ParseResult(ts_tree_new)]
                  /\ ts_parser_reset
                  /\ pc' = "idle"
                  /\ since' = NoHistory
                  /\ UNCHANGED <<halt_stack, halt_pos, halt_cause>>
    /\ UNCHANGED <<language, included_ranges, cancellation_flag, timeout_micros,
                   flag, call_input, call_options, call_origin, reads, arg_ranges, treeVars, testVars>>

-----------------------------------------------------------------------------
(* The specification of the parser.                                        *)

Flags == {NULL, FlagPtr}
Timeouts == {0, 1}
Options == {"nil", "signal", "timer"}

GoRange(s, e) == [StartByte |-> s, EndByte |-> e]

\* Range lists the parser is given in the parser specification: none, one
\* covering the first byte, one that ends before it starts, two out of order.
RangeChoices ==
    { <<>>, <<GoRange(0, 1)>>, <<GoRange(1, 0)>>, <<GoRange(1, 2), GoRange(0, 1)>> }

\* The parser and the ways a parse call is halted and resumed.
Next ==
    \/ \E l \in Languages : SetLanguage(l)
    \/ Reset
    \/ \E t \in Timeouts : SetTimeoutMicros(t)
    \/ \E f \in Flags : SetCancellationFlag(f)
    \/ CancelFromOtherThread
    \/ ClearFlag
    \/ \E input \in Inputs, options \in Options : ParseWithOptions(input, options)
    \/ LexToken
    \/ Checkpoint
    \/ Balance

Spec == Init /\ [][Next]_vars

\* The parser and its setup calls: languages and included ranges, with parse
\* calls that a progress callback may halt.
NextSetup ==
    \/ \E l \in Languages : SetLanguage(l)
    \/ \E ranges \in RangeChoices : SetIncludedRanges(ranges)
    \/ Reset
    \/ \E text \in Texts : Parse(text)
    \/ \E text \in Texts : ParseWithOptions([kind |-> "slice", text |-> text], "timer")
    \/ LexToken
    \/ Checkpoint
    \/ Balance

SpecSetup == Init /\ [][NextSetup]_vars

\* The parser reading its text from a callback that ends the input itself.
NextInput ==
    \/ \E l \in Languages : SetLanguage(l)
    \/ \E input \in CallbackInputs : ParseWithOptions(input, "nil")
    \/ LexToken
    \/ Checkpoint
    \/ Balance

SpecInput == Init /\ [][NextInput]_vars

-----------------------------------------------------------------------------
(* SetIncludedRanges as a function of its argument.                        *)

\* Byte offsets a Go Range may hold: small ones, and ones that need more
\* bits than a uint32_t has (Range.StartByte and Range.EndByte are uint).
GoUintValues == (0..2) \cup {2 ^ Uint32Bits, (2 ^ Uint32Bits) + 1}

GoRanges == {GoRange(st, en) : st \in GoUintValues, en \in GoUintValues}

RangeLists == SeqsUpTo(GoRanges, MaxRanges)

InitRanges == InitParser /\ arg_ranges \in RangeLists /\ NoTrees /\ NoTests

NextRanges == SetIncludedRanges(arg_ranges)

SpecRanges == InitRanges /\ [][NextRanges]_vars

-----------------------------------------------------------------------------
(* Trees: Tree.Clone, Tree.Edit and Tree.Close over the engine's           *)
(* reference-counted subtrees.  The text of a tree is one line, so the     *)
(* Point of an offset is (0, offset) and the model keeps the bytes.        *)

\* Length arithmetic of the engine, on uint32_t.
length_add(a, b) == uint32_t(a + b)
length_sub(a, b) == uint32_t(a - b)
length_saturating_sub(a, b) == IF a > b THEN a - b ELSE 0

ts_subtree_total_bytes(hp, id) == length_add(hp[id].padding, hp[id].size)

\* The allocator hands out the lowest free address.
ts_subtree_alloc(hp) ==
    CHOOSE id \in DOMAIN hp :
        /\ hp[id].ref_count = 0
        /\ \A other \in DOMAIN hp : hp[other].ref_count = 0 => id <= other

ts_subtree_retain(hp, id) == [hp EXCEPT ![id].ref_count = @ + 1]

RECURSIVE RetainAll(_, _)
RetainAll(hp, ids) ==
    IF ids = <<>> THEN hp ELSE RetainAll(ts_subtree_retain(hp, Head(ids)), Tail(ids))

RECURSIVE ts_subtree_release(_, _)
RECURSIVE ReleaseAll(_, _)

\* ts_subtree_release: drops one reference; the last one frees the subtree
\* and releases its children.
ts_subtree_release(hp, id) ==
    IF hp[id].ref_count > 1
    THEN [hp EXCEPT ![id].ref_count = @ - 1]
    ELSE ReleaseAll([hp EXCEPT ![id] = FreeSubtree], hp[id].children)

ReleaseAll(hp, ids) ==
    IF ids = <<>> THEN hp ELSE ReleaseAll(ts_subtree_release(hp, Head(ids)), Tail(ids))

\* ts_subtree_clone: a copy of the node with one reference, sharing (and
\* retaining) the children.
ts_subtree_clone(hp, id) ==
    LET new == ts_subtree_alloc(hp)
    IN [heap |-> RetainAll([hp EXCEPT ![new] = [hp[id] EXCEPT !.ref_count = 1]],
                           hp[id].children),
        id |-> new]

\* ts_subtree_make_mut: a subtree with one owner is changed in place, a shared
\* one is copied first and the copy is what changes.
ts_subtree_make_mut(hp, id) ==
    IF hp[id].ref_count = 1
    THEN [heap |-> hp, id |-> id]
    ELSE LET copy == ts_subtree_clone(hp, id)
         IN [heap |-> ts_subtree_release(copy.heap, id), id |-> copy.id]

RECURSIVE ts_subtree_edit(_, _, _)
RECURSIVE EditChildren(_, _, _, _, _)
RECURSIVE Reshape(_, _, _)
RECURSIVE EditChild(_, _, _, _, _)

\* ts_subtree_edit: moves and resizes the subtree for the edit (in the
\* subtree's own coordinates, which start at its padding), marks it changed
\* and passes the edit on to the children it touches.
ts_subtree_edit(hp, id, edit) ==
    LET is_noop == edit.old_end = edit.start /\ edit.new_end = edit.start
        is_pure_insertion == edit.old_end = edit.start
        size == hp[id].size
        padding == hp[id].padding
        total_size == ts_subtree_total_bytes(hp, id)
    IN IF edit.start > total_size \/ (is_noop /\ edit.start = total_size)
       THEN [heap |-> hp, id |-> id]
       ELSE
         LET shape ==
               CASE edit.old_end <= padding ->
                      [padding |-> length_add(edit.new_end, length_sub(padding, edit.old_end)),
                       size |-> size]
                 [] edit.old_end > padding /\ edit.start < padding ->
                      [padding |-> edit.new_end,
                       size |-> length_saturating_sub(size, length_sub(edit.old_end, padding))]
                 [] edit.old_end > padding /\ edit.start = padding /\ is_pure_insertion ->
                      [padding |-> edit.new_end, size |-> size]
                 [] edit.old_end > padding /\ edit.start >= padding
                      /\ ~(edit.start = padding /\ is_pure_insertion)
                      /\ (edit.start < total_size
                            \/ (edit.start = total_size /\ is_pure_insertion)) ->
                      [padding |-> padding,
                       size |-> length_add(length_sub(edit.new_end, padding),
                                           length_saturating_sub(total_size, edit.old_end))]
                 [] OTHER -> [padding |-> padding, size |-> size]
         IN Reshape(ts_subtree_make_mut(hp, id), shape, edit)

\* The loop of ts_subtree_edit over the children, child i onwards, the
\* children before it ending at child_right.
EditChildren(hp, id, i, child_right, edit) ==
    IF i > Len(hp[id].children)
    THEN [heap |-> hp, id |-> id]
    ELSE
      LET child == hp[id].children[i]
          is_pure_insertion == edit.old_end = edit.start
          child_size == ts_subtree_total_bytes(hp, child)
          child_left == child_right
          right == length_add(child_left, child_size)
      IN IF right < edit.start
         THEN EditChildren(hp, id, i + 1, right, edit)
         ELSE IF \/ child_left > edit.old_end
                 \/ (child_left = edit.old_end /\ child_size > 0 /\ i > 1)
         THEN [heap |-> hp, id |-> id]
         ELSE
           LET touches == \/ right > edit.start
                          \/ (right = edit.start /\ is_pure_insertion)
               start == length_saturating_sub(edit.start, child_left)
               child_edit ==
                   IF touches
                   THEN [start |-> start,
                         old_end |-> length_saturating_sub(edit.old_end, child_left),
                         new_end |-> length_saturating_sub(edit.new_end, child_left)]
                   ELSE [start |-> start, old_end |-> start, new_end |-> start]
               rest == IF touches THEN [edit EXCEPT !.new_end = edit.start] ELSE edit
           IN EditChild(ts_subtree_edit(hp, child, child_edit), id, i, right, rest)

\* The subtree made mutable gets its new shape and is marked changed; then
\* its children are edited.
Reshape(mut, shape, edit) ==
    EditChildren([mut.heap EXCEPT ![mut.id] = [@ EXCEPT !.padding = shape.padding,
                                                        !.size = shape.size,
                                                        !.has_changes = TRUE]],
                 mut.id, 1, 0, edit)

\* Child i becomes the edited child; the loop goes on with the next one.
EditChild(done, id, i, right, rest) ==
    EditChildren([done.heap EXCEPT ![id].children[i] = done.id], id, i + 1, right, rest)

\* A conversion that takes the new end for the old end and the old for the new.
toTSInputEdit_swapped(edit) ==
    [start |-> uint32_t(edit.StartByte),
     old_end |-> uint32_t(edit.NewEndByte),
     new_end |-> uint32_t(edit.OldEndByte)]

\* InputEdit.toTSInputEdit: the byte offsets go through C.uint.
toTSInputEdit(edit) ==
    [start |-> uint32_t(edit.StartByte),
     old_end |-> uint32_t(edit.OldEndByte),
     new_end |-> uint32_t(edit.NewEndByte)]

\* ts_tree_copy: a new TSTree that holds one more reference to the same root.
ts_tree_copy(cTree) ==
    LET new == CHOOSE c \in DOMAIN ctrees :
                   ctrees[c] = NoTSTree
                   /\ \A d \in DOMAIN ctrees : ctrees[d] = NoTSTree => c <= d
    IN [heap |-> ts_subtree_retain(heap, ctrees[cTree].root),
        ctrees |-> [ctrees EXCEPT ![new] = TSTree(ctrees[cTree].root)],
        tree |-> new]

\* ts_tree_edit: the root becomes what ts_subtree_edit returns.
ts_tree_edit(cTree, edit) ==
    LET done == ts_subtree_edit(heap, ctrees[cTree].root, edit)
    IN [heap |-> done.heap, ctrees |-> [ctrees EXCEPT ![cTree] = TSTree(done.id)]]

\* ts_tree_delete: releases the root and frees the TSTree.
ts_tree_delete(cTree) ==
    [heap |-> ts_subtree_release(heap, ctrees[cTree].root),
     ctrees |-> [ctrees EXCEPT ![cTree] = FreedTSTree]]

\* A Tree that has not been closed and whose TSTree has not been freed.
Open(t) == trees[t] # NoTree /\ ctrees[trees[t]].live

treeIdle ==
    UNCHANGED <<language, included_ranges, cancellation_flag, timeout_micros,
                stack, position, canceled_balancing, flag, pc, call_input,
                call_options, since, call_origin, halt_stack, halt_pos,
                halt_cause, reads, arg_ranges, testVars>>

\* A Clone that wraps the TSTree of the original.
Clone_alias(t) ==
    /\ Open(t)
    /\ \E new \in Handles :
         /\ trees[new] = NoTree
         /\ \A other \in Handles : trees[other] = NoTree => new <= other
         /\ trees' = [trees EXCEPT ![new] = newTree(trees[t])]
         /\ result' = [op |-> "Clone", tree |-> t, clone |-> new]
    /\ UNCHANGED <<heap, ctrees, edits>>
    /\ treeIdle

\* Tree.Clone
Clone(t) ==
    /\ Open(t)
    /\ \E new \in Handles :
         /\ trees[new] = NoTree
         /\ \A other \in Handles : trees[other] = NoTree => new <= other
         /\ LET copy == ts_tree_copy(trees[t])
            IN /\ heap' = copy.heap
               /\ ctrees' = copy.ctrees
               /\ trees' = [trees EXCEPT ![new] = newTree(copy.tree)]
         /\ result' = [op |-> "Clone", tree |-> t, clone |-> new]
    /\ UNCHANGED edits
    /\ treeIdle

\* Tree.Edit
Edit(t, edit) ==
    /\ Open(t)
    /\ edits < MaxEdits
    /\ edits' = edits + 1
    /\ LET done == ts_tree_edit(trees[t], toTSInputEdit(edit))
       IN heap' = done.heap /\ ctrees' = done.ctrees
    /\ result' = [op |-> "Edit", tree |-> t]
    /\ UNCHANGED trees
    /\ treeIdle

\* Tree.Close
Close(t) ==
    /\ Open(t)
    /\ LET done == ts_tree_delete(trees[t])
       IN heap' = done.heap /\ ctrees' = done.ctrees
    /\ result' = [op |-> "Close", tree |-> t]
    /\ UNCHANGED trees
    /\ UNCHANGED edits
    /\ treeIdle

\* What a Node of the tree shows: Node.StartByte, Node.EndByte and
\* Node.HasChanges of the node at each path below the root, with the byte
\* at which the node's leading padding starts.
RECURSIVE NodeViews(_, _, _, _)
RECURSIVE ChildViews(_, _, _, _, _)
NodeViews(hp, id, offset, path) ==
    LET start == offset + hp[id].padding
    IN {[path |-> path, PaddingByte |-> offset, StartByte |-> start,
         EndByte |-> start + hp[id].size, HasChanges |-> hp[id].has_changes]}
       \cup ChildViews(hp, hp[id].children, 1, offset, path)

ChildViews(hp, children, i, offset, path) ==
    IF i > Len(children)
    THEN {}
    ELSE NodeViews(hp, children[i], offset, Append(path, i - 1))
         \cup ChildViews(hp, children, i + 1,
                         offset + ts_subtree_total_bytes(hp, children[i]), path)

RootNode(t) == NodeViews(heap, ctrees[trees[t]].root, 0, <<>>)

\* The tokens of a parsed document: each one byte long, all next to one
\* another or all after a gap of one byte.
Layouts ==
    {[i \in 1..n |-> [padding |-> p, size |-> 1]] : n \in 0..MaxLen, p \in 0..1}

RECURSIVE LayoutBytes(_)
LayoutBytes(layout) ==
    IF layout = <<>> THEN 0
    ELSE Head(layout).padding + Head(layout).size + LayoutBytes(Tail(layout))

\* The tree of a complete parse: a root over one leaf for each token, held by
\* the first Tree.
ParsedTree(layout) ==
    /\ heap = [id \in Subtrees |->
                 IF id = 1
                 THEN [ref_count |-> 1, symbol |-> "program",
                       padding |-> IF layout = <<>> THEN 0 ELSE layout[1].padding,
                       size |-> LayoutBytes(layout)
                                  - (IF layout = <<>> THEN 0 ELSE layout[1].padding),
                       has_changes |-> FALSE,
                       children |-> [i \in 1..Len(layout) |-> i + 1]]
                 ELSE IF id - 1 \in 1..Len(layout)
                 THEN [ref_count |-> 1, symbol |-> "a",
                       padding |-> layout[id - 1].padding,
                       size |-> layout[id - 1].size, has_changes |-> FALSE,
                       children |-> <<>>]
                 ELSE FreeSubtree]
    /\ ctrees = [c \in Handles |-> IF c = 1 THEN TSTree(1) ELSE NoTSTree]
    /\ trees = [t \in Handles |-> IF t = 1 THEN 1 ELSE NoTree]
    /\ edits = 0

\* The edits of one byte at an offset: its insertion and its deletion.
InputEdits ==
    UNION {{[StartByte |-> s, OldEndByte |-> s, NewEndByte |-> s + 1],
            [StartByte |-> s, OldEndByte |-> s + 1, NewEndByte |-> s]} :
           s \in 0..MaxEditByte}

InitTree ==
    /\ InitParser /\ arg_ranges = <<>> /\ NoTests
    /\ \E layout \in Layouts : ParsedTree(layout)

NextTree ==
    \/ \E t \in Handles : Clone(t)
    \/ \E t \in Handles, edit \in InputEdits : Edit(t, edit)
    \/ \E t \in Handles : Close(t)

SpecTree == InitTree /\ [][NextTree]_vars

\* Tree.Edit as a function of its argument: the edits of a parsed document,
\* also those that end beyond the end of the tree.
MaxEditEnd == MaxEditByte + 2

AllEdits ==
    {e \in [StartByte : 0..MaxEditEnd, OldEndByte : 0..MaxEditEnd,
            NewEndByte : 0..MaxEditEnd] :
        e.StartByte <= e.OldEndByte /\ e.StartByte <= e.NewEndByte}

InitEdit ==
    /\ InitParser /\ arg_ranges = <<>> /\ threads = <<>> /\ cursor = None
    /\ arg_source = None
    /\ arg_edit \in AllEdits
    /\ \E layout \in Layouts : ParsedTree(layout)

NextEdit == Edit(1, arg_edit)

SpecEdit == InitEdit /\ [][NextEdit]_vars

-----------------------------------------------------------------------------
(* Parsing a text into a tree, starting from an old tree.                  *)

\* The children of a root, each with the byte offset it starts at (its
\* padding included).
RECURSIVE OldChildren(_, _, _, _)
OldChildren(hp, children, i, offset) ==
    IF i > Len(children)
    THEN {}
    ELSE {[id |-> children[i], offset |-> offset]}
         \cup OldChildren(hp, children, i + 1,
                          offset + ts_subtree_total_bytes(hp, children[i]))

\* The subtrees of the old tree the parser may put at byte p of a text of
\* len bytes: they start at p, no edit has touched them and the text holds
\* them whole.
ReusableAt(hp, old, p, len) ==
    IF old = NoTree
    THEN {}
    ELSE {c \in OldChildren(hp, hp[old].children, 1, 0) :
             /\ c.offset = p
             /\ ~hp[c.id].has_changes
             /\ ts_subtree_total_bytes(hp, c.id) > 0
             /\ p + ts_subtree_total_bytes(hp, c.id) <= len}

\* The leaf the lexer makes of the byte at p.
Leaf(lang, text, p) ==
    [ref_count |-> 1, symbol |-> Token(lang, text[p + 1], p).kind, padding |-> 0,
     size |-> 1, has_changes |-> FALSE, children |-> <<>>]

\* The parse loop from byte p on, kids being the subtrees made so far: an
\* old subtree is reused (and retained) where there is one, else the byte
\* is lexed.
RECURSIVE ParseFrom(_, _, _, _, _, _)
ParseFrom(hp, lang, text, old, p, kids) ==
    IF p >= Len(text)
    THEN [heap |-> hp, children |-> kids]
    ELSE LET reuse == ReusableAt(hp, old, p, Len(text))
         IN IF reuse # {}
            THEN LET c == CHOOSE c \in reuse : TRUE
                 IN ParseFrom(ts_subtree_retain(hp, c.id), lang, text, old,
                              p + ts_subtree_total_bytes(hp, c.id), Append(kids, c.id))
            ELSE LET leaf == ts_subtree_alloc(hp)
                 IN ParseFrom([hp EXCEPT ![leaf] = Leaf(lang, text, p)], lang, text,
                              old, p + 1, Append(kids, leaf))

\* ts_parser_parse with an old tree: the subtrees, the root over them and
\* the TSTree that holds the root.
ts_parser_parse(hp, ct, lang, text, old) ==
    LET body == ParseFrom(hp, lang, text, old, 0, <<>>)
        root == ts_subtree_alloc(body.heap)
        new == CHOOSE c \in DOMAIN ct :
                   ct[c] = NoTSTree /\ \A d \in DOMAIN ct : ct[d] = NoTSTree => c <= d
    IN [heap |-> [body.heap EXCEPT ![root] =
                     [ref_count |-> 1, symbol |-> "program", padding |-> 0,
                      size |-> Len(text), has_changes |-> FALSE,
                      children |-> body.children]],
        ctrees |-> [ct EXCEPT ![new] = TSTree(root)],
        tree |-> new]

\* Node.ToSexp: the kind of the node and the S-expressions of its children.
RECURSIVE ToSexp(_, _)
ToSexp(hp, id) ==
    <<hp[id].symbol, [i \in 1..Len(hp[id].children) |-> ToSexp(hp, hp[id].children[i])]>>

\* Node.ChildCount of the root node of a tree.
ChildCount(t) == Len(heap[ctrees[trees[t]].root].children)

\* The lowest Tree handle not yet used.
NewHandle(new) ==
    /\ new \in DOMAIN trees
    /\ trees[new] = NoTree
    /\ \A other \in DOMAIN trees : trees[other] = NoTree => new <= other

-----------------------------------------------------------------------------
(* Threads that each reparse an edited clone of one tree.                  *)

ThreadIds == 1..MaxThreads
ThreadLanguage == "javascript"

threadIdle ==
    UNCHANGED <<language, included_ranges, cancellation_flag, timeout_micros,
                stack, position, canceled_balancing, flag, pc, call_input,
                call_options, since, call_origin, halt_stack, halt_pos,
                halt_cause, reads, arg_ranges, result, edits, arg_edit, cursor,
                arg_source>>

\* The main thread hands the thread the original tree itself.
ThreadClone_shared(i) ==
    /\ threads[i].pc = "new"
    /\ threads' = [threads EXCEPT ![i].pc = "go", ![i].tree = 1]
    /\ UNCHANGED <<heap, ctrees, trees>>
    /\ threadIdle

\* The main thread: treeClone := tree.Clone(), then go func(...).
ThreadClone(i) ==
    /\ threads[i].pc = "new"
    /\ \E new \in DOMAIN trees :
         /\ NewHandle(new)
         /\ LET copy == ts_tree_copy(trees[1])
            IN /\ heap' = copy.heap
               /\ ctrees' = copy.ctrees
               /\ trees' = [trees EXCEPT ![new] = newTree(copy.tree)]
         /\ threads' = [threads EXCEPT ![i].pc = "go", ![i].tree = new]
    /\ threadIdle

\* Thread i prepends i declarations to its text and edits its tree for it.
ThreadEdit(i) ==
    /\ threads[i].pc = "go"
    /\ LET done == ts_tree_edit(trees[threads[i].tree],
                                toTSInputEdit([StartByte |-> 0, OldEndByte |-> 0,
                                               NewEndByte |-> i]))
       IN heap' = done.heap /\ ctrees' = done.ctrees
    /\ threads' = [threads EXCEPT ![i].pc = "edited",
                                  ![i].text = [k \in 1..i |-> "a"] \o @]
    /\ UNCHANGED trees
    /\ threadIdle

\* Thread i parses its text with a parser of its own, its tree as old tree.
ThreadParse(i) ==
    /\ threads[i].pc = "edited"
    /\ \E new \in DOMAIN trees :
         /\ NewHandle(new)
         /\ LET done == ts_parser_parse(heap, ctrees, ThreadLanguage, threads[i].text,
                                        ctrees[trees[threads[i].tree]].root)
            IN /\ heap' = done.heap
               /\ ctrees' = done.ctrees
               /\ trees' = [trees EXCEPT ![new] = newTree(done.tree)]
         /\ threads' = [threads EXCEPT ![i].pc = "done", ![i].out = new]
    /\ threadIdle

ThreadSubtrees == 1..((MaxLen + 1) + MaxThreads * (MaxThreads + 4))
ThreadHandles == 1..(1 + 2 * MaxThreads)

\* The main thread has parsed the source; no thread has started.
InitThreads ==
    /\ InitParser /\ arg_ranges = <<>> /\ edits = 0 /\ arg_edit = None
    /\ cursor = None /\ arg_source = None
    /\ \E source \in Texts :
         LET done == ts_parser_parse([id \in ThreadSubtrees |-> FreeSubtree],
                                     [c \in ThreadHandles |-> NoTSTree],
                                     ThreadLanguage, source, NoTree)
         IN /\ heap = done.heap
            /\ ctrees = done.ctrees
            /\ trees = [t \in ThreadHandles |-> IF t = 1 THEN newTree(done.tree) ELSE NoTree]
            /\ threads = [i \in ThreadIds |->
                            [pc |-> "new", tree |-> NoTree, source |-> source,
                             text |-> source, out |-> NoTree]]

NextThreads ==
    \/ \E i \in ThreadIds : ThreadClone(i)
    \/ \E i \in ThreadIds : ThreadEdit(i)
    \/ \E i \in ThreadIds : ThreadParse(i)

SpecThreads == InitThreads /\ [][NextThreads]_vars

-----------------------------------------------------------------------------
(* A test that edits a document, reparses it, undoes the edit and reparses *)
(* again.                                                                  *)

\* The testEdit values that fit a text: a position, the number of bytes
\* deleted there and the bytes inserted.
TestEdits(text) ==
    {[position |-> p, deletedLength |-> d, insertedText |-> ins] :
        p \in 0..Len(text), d \in 0..Len(text), ins \in Texts}

\* An inverse that deletes as many bytes as the edit deleted.
invertEdit_samelength(input, edit) ==
    [position |-> edit.position,
     deletedLength |-> edit.deletedLength,
     insertedText |-> SubSeq(input, edit.position + 1,
                             edit.position + edit.deletedLength)]

\* invertEdit: deletes what the edit inserted and inserts what it removed.
invertEdit(input, edit) ==
    [position |-> edit.position,
     deletedLength |-> Len(edit.insertedText),
     insertedText |-> SubSeq(input, edit.position + 1,
                             edit.position + edit.deletedLength)]

\* performEdit: the InputEdit of a testEdit and the input after it.
performEdit(input, edit) ==
    LET startByte == edit.position
        oldEndByte == edit.position + edit.deletedLength
        newEndByte == edit.position + Len(edit.insertedText)
    IN [input |-> SubSeq(input, 1, startByte) \o edit.insertedText
                    \o SubSeq(input, oldEndByte + 1, Len(input)),
        inputEdit |-> [StartByte |-> startByte, OldEndByte |-> oldEndByte,
                       NewEndByte |-> newEndByte]]

\* performEdit(tree, &source, edit): the source is spliced and the tree edited.
PerformEdit(i) ==
    /\ threads[i].pc \in {"parsed", "reparsed"}
    /\ LET done == performEdit(threads[i].text, threads[i].edit)
           edited == ts_tree_edit(trees[threads[i].tree], toTSInputEdit(done.inputEdit))
       IN /\ heap' = edited.heap
          /\ ctrees' = edited.ctrees
          /\ threads' = [threads EXCEPT
                           ![i].text = done.input,
                           ![i].pc = IF @ = "parsed" THEN "edited" ELSE "undone"]
    /\ UNCHANGED trees
    /\ threadIdle

\* tree2 := parser.Parse(source, tree): the next edit is the undo.
Reparse(i) ==
    /\ threads[i].pc \in {"edited", "undone"}
    /\ \E new \in DOMAIN trees :
         /\ NewHandle(new)
         /\ LET done == ts_parser_parse(heap, ctrees, threads[i].lang, threads[i].text,
                                        ctrees[trees[threads[i].tree]].root)
            IN /\ heap' = done.heap
               /\ ctrees' = done.ctrees
               /\ trees' = [trees EXCEPT ![new] = newTree(done.tree)]
         /\ threads' = [threads EXCEPT
                          ![i].tree = new,
                          ![i].edit = threads[i].undo,
                          ![i].pc = IF @ = "edited" THEN "reparsed" ELSE "done"]
    /\ threadIdle

RoundTripSubtrees == 1..(6 * MaxLen + 4)

\* The test has parsed its source and chosen an edit and its inverse.
InitRoundTrip ==
    /\ InitParser /\ arg_ranges = <<>> /\ edits = 0 /\ arg_edit = None
    /\ cursor = None /\ arg_source = None
    /\ \E source \in Texts, lang \in {"json", "javascript"} :
         \E edit \in {e \in TestEdits(source) :
                        e.position + e.deletedLength <= Len(source)} :
           LET done == ts_parser_parse([id \in RoundTripSubtrees |-> FreeSubtree],
                                       [c \in 1..3 |-> NoTSTree], lang, source, NoTree)
           IN /\ heap = done.heap
              /\ ctrees = done.ctrees
              /\ trees = [t \in 1..3 |-> IF t = 1 THEN newTree(done.tree) ELSE NoTree]
              /\ threads = <<[pc |-> "parsed", tree |-> 1, source |-> source,
                              text |-> source, lang |-> lang, edit |-> edit,
                              undo |-> invertEdit(source, edit)]>>

NextRoundTrip == PerformEdit(1) \/ Reparse(1)

SpecRoundTrip == InitRoundTrip /\ [][NextRoundTrip]_vars

-----------------------------------------------------------------------------
(* The query cursor.  The engine behind it is modelled from the            *)
(* specification: it walks the nodes of a document in order and keeps the  *)
(* matches in progress within the match limit.                             *)

\* The nodes a query runs over: one identifier for each byte of a text.
QueryNodes(text) ==
    [i \in 1..Len(text) |-> [StartByte |-> i - 1, EndByte |-> i, Text |-> text[i]]]

\* The queries: a pattern of one, two or three identifiers, each captured.
\* The identifiers of a match follow one another directly, as the fields of
\* one node do, or anywhere, as the children of an array do; the query stands
\* alone or has the predicate (#eq? @first "a").
Queries ==
    {q \in [captures : {1, 2, 3}, anywhere : BOOLEAN,
            predicate : {None, [capture |-> 1, value |-> "a"]}] :
        q.captures = 1 => ~q.anywhere}

\* NewQueryCursor, with the query and the document its caller runs it on;
\* the fields from mode on record what the caller asked for and what the
\* execution under these settings did: peak is the most matches that were
\* in progress at once.  A change of the settings starts a new record.
NewQueryCursor(query, text) ==
    [match_limit |-> UINT32_MAX, did_exceed_match_limit |-> FALSE,
     start_byte |-> 0, end_byte |-> UINT32_MAX,
     query |-> query, nodes |-> QueryNodes(text), at |-> 0, states |-> <<>>, finished |-> <<>>,
     next_state_id |-> 0, mode |-> "none",
     ended |-> FALSE, limit |-> UINT32_MAX, range |-> <<0, 0>>, peak |-> 0,
     dropped |-> 0, yielded |-> <<>>, removed |-> {}]

SeqRange(seq) == {seq[i] : i \in 1..Len(seq)}

\* The element of a set of one element: the value of a step of a loop, worked
\* out once before the loop goes on with it.
The(S) == CHOOSE x \in S : TRUE

\* A node the cursor visits: one that intersects the byte range.
InByteRange(c, node) == node.EndByte > c.start_byte /\ node.StartByte < c.end_byte

\* A match in progress is added and gets its id; at the match limit the
\* oldest one is dropped for it and the cursor notes that the limit was
\* exceeded.
AddState(c, captures) ==
    IF Len(c.states) < c.match_limit
    THEN [c EXCEPT !.states = Append(@, [id |-> c.next_state_id, captures |-> captures,
                                         consumed |-> 0]),
                   !.next_state_id = @ + 1,
                   !.peak = IF Len(c.states) + 1 > @ THEN Len(c.states) + 1 ELSE @]
    ELSE [c EXCEPT !.did_exceed_match_limit = TRUE,
                   !.dropped = @ + 1,
                   !.next_state_id = @ + 1,
                   !.states = IF @ = <<>> THEN <<>>
                              ELSE Append(Tail(@), [id |-> c.next_state_id,
                                                    captures |-> captures,
                                                    consumed |-> 0])]

\* A match that has all its captures with its first one gets its id and
\* waits to be returned.
FinishState(c, captures) ==
    [c EXCEPT !.finished = Append(@, [id |-> c.next_state_id, captures |-> captures,
                                      consumed |-> 0]),
              !.next_state_id = @ + 1]

\* Node j continues the match in progress st.  Where the nodes of a match
\* may lie anywhere, the match with the node is a further match and the
\* match without it goes on waiting for a later node; where they follow one
\* another, the match takes the node.
ContinueState(c, st, j) ==
    IF c.query.anywhere
    THEN IF Len(st.captures) + 1 = c.query.captures
         THEN FinishState(c, Append(st.captures, j))
         ELSE AddState(c, Append(st.captures, j))
    ELSE IF Len(st.captures) + 1 = c.query.captures
    THEN [c EXCEPT !.states = SelectSeq(@, LAMBDA o : o.id # st.id),
                   !.finished = Append(@, [st EXCEPT !.captures = Append(@, j)])]
    ELSE [c EXCEPT !.states = [i \in DOMAIN @ |->
                                  IF @[i].id = st.id
                                  THEN [st EXCEPT !.captures = Append(@, j)]
                                  ELSE @[i]]]

\* Node j continues each match that was in progress before it and still is.
RECURSIVE ContinueStates(_, _, _)
ContinueStates(c, ids, j) ==
    IF ids = <<>>
    THEN c
    ELSE IF \A st \in SeqRange(c.states) : st.id # Head(ids)
    THEN ContinueStates(c, Tail(ids), j)
    ELSE The({ContinueStates(continued, Tail(ids), j) :
                 continued \in {ContinueState(c, The({st \in SeqRange(c.states) :
                                                        st.id = Head(ids)}), j)}})

\* Node j starts a match.
StartState(c, j) ==
    IF c.query.captures = 1 THEN FinishState(c, <<j>>) ELSE AddState(c, <<j>>)

\* ts_query_cursor__advance: the walk visits the next node.
ts_query_cursor__advance(c) ==
    IF ~InByteRange(c, c.nodes[c.at + 1])
    THEN [c EXCEPT !.at = @ + 1]
    ELSE StartState(ContinueStates([c EXCEPT !.at = @ + 1],
                                   [i \in DOMAIN c.states |-> c.states[i].id],
                                   c.at + 1),
                    c.at + 1)

\* ts_query_cursor_next_match: the next finished match, walking on until
\* there is one or the walk ends.
RECURSIVE ts_query_cursor_next_match(_)
ts_query_cursor_next_match(c) ==
    IF c.finished # <<>>
    THEN [cursor |-> [c EXCEPT !.finished = Tail(@)], found |-> TRUE,
          match |-> Head(c.finished)]
    ELSE IF c.at = Len(c.nodes)
    THEN [cursor |-> [c EXCEPT !.states = <<>>], found |-> FALSE, match |-> Nil]
    ELSE The({ts_query_cursor_next_match(advanced) :
                 advanced \in {ts_query_cursor__advance(c)}})

\* A match in progress that is certain to finish: its nodes follow one
\* another and the last of them is there to be visited.
Certain(c, st) ==
    /\ ~c.query.anywhere
    /\ st.captures[1] + c.query.captures - 1 <= Len(c.nodes)
    /\ InByteRange(c, c.nodes[st.captures[1] + c.query.captures - 1])

\* The matches that have a capture to hand out: the finished ones and the
\* ones in progress that are certain to finish.
Pending(c) ==
    {st \in SeqRange(c.finished) \cup {o \in SeqRange(c.states) : Certain(c, o)} :
        st.consumed < Len(st.captures)}

\* The match whose next capture comes first in the document.
FirstCapture(c) ==
    CHOOSE m \in Pending(c) :
        \A o \in Pending(c) :
            \/ m.captures[m.consumed + 1] < o.captures[o.consumed + 1]
            \/ (m.captures[m.consumed + 1] = o.captures[o.consumed + 1] /\ m.id <= o.id)

\* The next capture of the match m is handed out.
ConsumeCapture(c, m) ==
    [cursor |->
        [c EXCEPT !.finished =
                      SelectSeq([i \in DOMAIN @ |->
                                    IF @[i].id = m.id
                                    THEN [@[i] EXCEPT !.consumed = m.consumed + 1]
                                    ELSE @[i]],
                                LAMBDA f : f.consumed < Len(f.captures)),
                  !.states =
                      [i \in DOMAIN @ |->
                          IF @[i].id = m.id
                          THEN [@[i] EXCEPT !.consumed = m.consumed + 1]
                          ELSE @[i]]],
     found |-> TRUE, match |-> m, index |-> m.consumed]

\* No match that may still finish can come before the next capture of m.
CaptureIsNext(c, m) ==
    \/ c.at = Len(c.nodes)
    \/ \A st \in SeqRange(c.states) :
          Certain(c, st) \/ st.captures[1] > m.captures[m.consumed + 1]

\* ts_query_cursor_next_capture: the next capture of a match, once no other
\* match can still come before it.
RECURSIVE ts_query_cursor_next_capture(_)
ts_query_cursor_next_capture(c) ==
    IF Pending(c) # {} /\ CaptureIsNext(c, FirstCapture(c))
    THEN ConsumeCapture(c, FirstCapture(c))
    ELSE IF c.at = Len(c.nodes)
    THEN [cursor |-> [c EXCEPT !.states = <<>>], found |-> FALSE, match |-> Nil,
          index |-> 0]
    ELSE The({ts_query_cursor_next_capture(advanced) :
                 advanced \in {ts_query_cursor__advance(c)}})

\* ts_query_cursor_remove_match: the match is gone, finished or in progress.
ts_query_cursor_remove_match(c, id) ==
    [c EXCEPT !.finished = SelectSeq(@, LAMBDA f : f.id # id),
              !.states = SelectSeq(@, LAMBDA st : st.id # id)]

\* ts_query_cursor_set_byte_range: an end byte of zero stands for no end.
ts_query_cursor_set_byte_range(c, start_byte, end_byte) ==
    [c EXCEPT !.start_byte = start_byte,
              !.end_byte = IF end_byte = 0 THEN UINT32_MAX ELSE end_byte]

\* ts_query_cursor_exec: the cursor starts over.
ts_query_cursor_exec(c, mode) ==
    [c EXCEPT !.did_exceed_match_limit = FALSE, !.at = 0, !.states = <<>>, !.finished = <<>>, !.next_state_id = 0,
              !.mode = mode, !.ended = FALSE, !.peak = 0, !.dropped = 0,
              !.yielded = <<>>, !.removed = {}]

\* The TextPredicateCapture fromRawParts builds for the predicate p, given
\* as its steps: the name of the operator, the capture and the values.
textPredicate(p) ==
    CASE p[1].value \in {"eq?", "not-eq?", "any-eq?", "any-not-eq?"} ->
            [Type |-> IF p[3].type = "TYPE_CAPTURE"
                      THEN "TextPredicateTypeEqCapture"
                      ELSE "TextPredicateTypeEqString",
             CaptureId |-> p[2].value,
             Value |-> p[3].value,
             Positive |-> p[1].value \in {"eq?", "any-eq?"},
             MatchAllNodes |-> p[1].value \in {"eq?", "not-eq?"}]
      [] p[1].value \in {"match?", "not-match?", "any-match?", "any-not-match?"} ->
            [Type |-> "TextPredicateTypeMatchString",
             CaptureId |-> p[2].value,
             Value |-> p[3].value,
             Positive |-> p[1].value \in {"match?", "any-match?"},
             MatchAllNodes |-> p[1].value \in {"match?", "not-match?"}]
      [] p[1].value \in {"any-of?", "not-any-of?"} ->
            [Type |-> "TextPredicateTypeAnyString",
             CaptureId |-> p[2].value,
             Value |-> [k \in 1..(Len(p) - 2) |-> p[k + 2].value],
             Positive |-> p[1].value = "any-of?",
             MatchAllNodes |-> TRUE]

\* Query.TextPredicates of the pattern of the query: of a query of the
\* cursor's executions, the one predicate (#eq? @capture "value") if it has
\* it.
TextPredicates(query) ==
    IF "TextPredicates" \in DOMAIN query
    THEN query.TextPredicates
    ELSE IF query.predicate = None
    THEN <<>>
    ELSE <<textPredicate(<<[type |-> "TYPE_STRING", value |-> "eq?"],
                           [type |-> "TYPE_CAPTURE", value |-> query.predicate.capture],
                           [type |-> "TYPE_STRING", value |-> query.predicate.value]>>)>>

\* newQueryMatch: the captures of a match of the engine, each with the index
\* of its capture; a match of the cursor's executions has one node for each
\* capture of the query.
newQueryMatch(match) ==
    IF "Captures" \in DOMAIN match
    THEN match.Captures
    ELSE [k \in DOMAIN match.captures |-> [Index |-> k, Node |-> match.captures[k]]]

\* QueryMatch.NodesForCaptureIndex
NodesForCaptureIndex(Captures, captureIndex) ==
    LET Captured(capture) == capture.Index = captureIndex
    IN [k \in DOMAIN SelectSeq(Captures, Captured)
           |-> SelectSeq(Captures, Captured)[k].Node]

\* Regexp.Match, for the regular expressions "a" and ".".
regexpMatch(r, nodeText) == r = "." \/ nodeText = r

\* The loop of condition over the texts of the nodes of one capture, for a
\* comparison with a string or a regular expression.
RECURSIVE conditionOverNodes(_, _)
conditionOverNodes(predicate, texts) ==
    IF texts = <<>>
    THEN TRUE
    ELSE LET isPositiveMatch ==
                 IF predicate.Type = "TextPredicateTypeEqString"
                 THEN Head(texts) = predicate.Value
                 ELSE regexpMatch(predicate.Value, Head(texts))
         IN IF isPositiveMatch # predicate.Positive /\ predicate.MatchAllNodes
            THEN FALSE
            ELSE IF isPositiveMatch = predicate.Positive /\ ~predicate.MatchAllNodes
            THEN TRUE
            ELSE conditionOverNodes(predicate, Tail(texts))

\* The loop of condition over the nodes of two captures, pair by pair.
RECURSIVE conditionOverPairs(_, _, _)
conditionOverPairs(predicate, texts1, texts2) ==
    IF texts1 = <<>> \/ texts2 = <<>>
    THEN texts1 = <<>> /\ texts2 = <<>>
    ELSE LET isPositiveMatch == Head(texts1) = Head(texts2)
         IN IF isPositiveMatch # predicate.Positive /\ predicate.MatchAllNodes
            THEN FALSE
            ELSE IF isPositiveMatch = predicate.Positive /\ ~predicate.MatchAllNodes
            THEN TRUE
            ELSE conditionOverPairs(predicate, Tail(texts1), Tail(texts2))

\* The closure condition of SatisfiesTextPredicate.
condition(predicate, nodes, Captures) ==
    LET TextsOf(captureIndex) ==
            [k \in DOMAIN NodesForCaptureIndex(Captures, captureIndex)
                |-> nodes[NodesForCaptureIndex(Captures, captureIndex)[k]].Text]
    IN CASE predicate.Type = "TextPredicateTypeEqCapture" ->
               conditionOverPairs(predicate, TextsOf(predicate.CaptureId),
                                  TextsOf(predicate.Value))
         [] predicate.Type \in {"TextPredicateTypeEqString",
                                "TextPredicateTypeMatchString"} ->
               conditionOverNodes(predicate, TextsOf(predicate.CaptureId))
         [] predicate.Type = "TextPredicateTypeAnyString" ->
               \A k \in DOMAIN TextsOf(predicate.CaptureId) :
                  (\E v \in DOMAIN predicate.Value :
                      TextsOf(predicate.CaptureId)[k] = predicate.Value[v])
                  = predicate.Positive
         [] OTHER -> FALSE

\* QueryMatch.SatisfiesTextPredicate
SatisfiesTextPredicate(query, nodes, match) ==
    \A k \in DOMAIN TextPredicates(query) :
       condition(TextPredicates(query)[k], nodes, newQueryMatch(match))

\* QueryMatches.Next, with what the engine returned: the next match of the
\* engine that satisfies the predicates.
RECURSIVE QueryMatchesNext(_)
QueryMatchesNext(next) ==
    IF ~next.found
    THEN [cursor |-> next.cursor, match |-> Nil]
    ELSE IF SatisfiesTextPredicate(next.cursor.query, next.cursor.nodes, next.match)
    THEN [cursor |-> next.cursor, match |-> next.match]
    ELSE The({QueryMatchesNext(m) : m \in {ts_query_cursor_next_match(next.cursor)}})

\* QueryCaptures.Next, with what the engine returned: the next capture of a
\* match that satisfies the predicates; a match that does not is removed.
RECURSIVE QueryCapturesNext(_)
QueryCapturesNext(next) ==
    IF ~next.found
    THEN [cursor |-> next.cursor, match |-> Nil, index |-> 0]
    ELSE IF SatisfiesTextPredicate(next.cursor.query, next.cursor.nodes, next.match)
    THEN [cursor |-> next.cursor, match |-> next.match, index |-> next.index]
    ELSE The({QueryCapturesNext(m) :
                 m \in {ts_query_cursor_next_capture(
                            ts_query_cursor_remove_match(next.cursor, next.match.id))}})

queryIdle ==
    UNCHANGED <<language, included_ranges, cancellation_flag, timeout_micros,
                stack, position, canceled_balancing, flag, pc, call_input,
                call_options, since, call_origin, halt_stack, halt_pos,
                halt_cause, reads, arg_ranges, treeVars, threads, arg_edit,
                arg_source>>

\* The caller is between two executions.
BetweenExecutions == cursor.mode = "none" \/ cursor.ended

\* A SetMatchLimit that hands the engine twice the limit.
SetMatchLimit_doubled(limit) ==
    /\ BetweenExecutions
    /\ cursor' = [cursor EXCEPT !.match_limit = uint32_t(2 * limit), !.limit = limit,
                                !.mode = "none", !.ended = FALSE, !.peak = 0,
                                !.dropped = 0, !.yielded = <<>>, !.removed = {}]
    /\ result' = [op |-> "SetMatchLimit"]
    /\ queryIdle

\* QueryCursor.SetMatchLimit
SetMatchLimit(limit) ==
    /\ BetweenExecutions
    /\ cursor' = [cursor EXCEPT !.match_limit = uint32_t(limit), !.limit = limit,
                                !.mode = "none", !.ended = FALSE, !.peak = 0,
                                !.dropped = 0, !.yielded = <<>>, !.removed = {}]
    /\ result' = [op |-> "SetMatchLimit"]
    /\ queryIdle

\* A DidExceedMatchLimit that never reports the limit as exceeded.
DidExceedMatchLimit_never ==
    /\ cursor.mode # "none"
    /\ result' = [op |-> "DidExceedMatchLimit", value |-> FALSE]
    /\ UNCHANGED cursor
    /\ queryIdle

\* QueryCursor.DidExceedMatchLimit
DidExceedMatchLimit ==
    /\ cursor.mode # "none"
    /\ result' = [op |-> "DidExceedMatchLimit", value |-> cursor.did_exceed_match_limit]
    /\ UNCHANGED cursor
    /\ queryIdle

\* QueryCursor.SetByteRange
SetByteRange(startByte, endByte) ==
    /\ BetweenExecutions
    /\ cursor' = [ts_query_cursor_set_byte_range(cursor, uint32_t(startByte),
                                                 uint32_t(endByte))
                    EXCEPT !.range = <<startByte, endByte>>,
                           !.mode = "none", !.ended = FALSE, !.peak = 0,
                           !.dropped = 0, !.yielded = <<>>, !.removed = {}]
    /\ result' = [op |-> "SetByteRange"]
    /\ queryIdle

\* QueryCursor.Matches and QueryCursor.Captures
Execute(mode) ==
    /\ BetweenExecutions
    /\ cursor' = ts_query_cursor_exec(cursor, mode)
    /\ result' = [op |-> "Execute"]
    /\ queryIdle

\* A QueryMatches.Next that starts the walk again once it has returned nil.
MatchesNext_rewinding ==
    /\ cursor.mode = "matches"
    /\ \E next \in {QueryMatchesNext(ts_query_cursor_next_match(cursor))} :
          /\ cursor' = [next.cursor EXCEPT
                          !.ended = @ \/ next.match = Nil,
                          !.at = IF next.match = Nil THEN 0 ELSE @,
                          !.yielded = IF next.match = Nil THEN @
                                      ELSE Append(@, [id |-> next.match.id,
                                                      captures |-> next.match.captures])]
          /\ result' = [op |-> "Next", match |-> next.match]
    /\ queryIdle

\* QueryMatches.Next
MatchesNext ==
    /\ cursor.mode = "matches"
    /\ \E next \in {QueryMatchesNext(ts_query_cursor_next_match(cursor))} :
          /\ cursor' = [next.cursor EXCEPT
                          !.ended = @ \/ next.match = Nil,
                          !.yielded = IF next.match = Nil THEN @
                                      ELSE Append(@, [id |-> next.match.id,
                                                      captures |-> next.match.captures])]
          /\ result' = [op |-> "Next", match |-> next.match]
    /\ queryIdle

\* QueryCaptures.Next
CapturesNext ==
    /\ cursor.mode = "captures"
    /\ \E next \in {QueryCapturesNext(ts_query_cursor_next_capture(cursor))} :
          /\ cursor' = [next.cursor EXCEPT
                          !.ended = @ \/ next.match = Nil,
                          !.yielded = IF next.match = Nil THEN @
                                      ELSE Append(@, [id |-> next.match.id,
                                                      captures |-> next.match.captures,
                                                      index |-> next.index])]
          /\ result' = [op |-> "Next", match |-> next.match, index |-> next.index]
    /\ queryIdle

\* A Remove that names the match after the one Next has just returned.
Remove_following ==
    /\ result.op = "Next" /\ result.match # Nil
    /\ cursor' = [ts_query_cursor_remove_match(cursor, result.match.id + 1) EXCEPT
                    !.removed = @ \cup {result.match.id}]
    /\ result' = [op |-> "Remove"]
    /\ queryIdle

\* QueryMatch.Remove, on the match Next has just returned.
Remove ==
    /\ result.op = "Next" /\ result.match # Nil
    /\ cursor' = [ts_query_cursor_remove_match(cursor, result.match.id) EXCEPT
                    !.removed = @ \cup {result.match.id}]
    /\ result' = [op |-> "Remove"]
    /\ queryIdle

\* The match limits and byte ranges a caller sets, also values that do not
\* fit 32 bits.
MatchLimits == {1, 2, UINT32_MAX + 2}
ByteRanges == {<<0, 1>>, <<1, 0>>, <<1, 2>>, <<UINT32_MAX + 1, 0>>}

InitQuery ==
    /\ InitParser /\ arg_ranges = <<>> /\ NoTrees
    /\ threads = <<>> /\ arg_edit = None /\ arg_source = None
    /\ \E query \in Queries, text \in Texts : cursor = NewQueryCursor(query, text)

NextQuery ==
    \/ \E limit \in MatchLimits : SetMatchLimit(limit)
    \/ \E range \in ByteRanges : SetByteRange(range[1], range[2])
    \/ \E mode \in {"matches", "captures"} : Execute(mode)
    \/ MatchesNext
    \/ CapturesNext
    \/ Remove
    \/ DidExceedMatchLimit

SpecQuery == InitQuery /\ [][NextQuery]_vars

\* Executions under a match limit; the caller of an iterator goes on
\* calling Next.
NextLimited ==
    \/ \E limit \in MatchLimits : SetMatchLimit(limit)
    \/ \E mode \in {"matches", "captures"} : Execute(mode)
    \/ MatchesNext
    \/ CapturesNext
    \/ DidExceedMatchLimit

SpecLimited ==
    InitQuery /\ [][NextLimited]_vars /\ WF_vars(MatchesNext) /\ WF_vars(CapturesNext)

-----------------------------------------------------------------------------
(* NewQuery and the predicates of a query.  The source of a query is       *)
(* modelled by the predicate steps of its one pattern, as the engine hands *)
(* them out: the name of the predicate, its arguments, and a closing step. *)

\* The captures the pattern of the query defines.
CaptureNames == {"id"}

\* The steps a source is written with: captures the pattern defines and one
\* it does not, and strings; "(" is no regular expression.
SourceSteps ==
    {[type |-> "TYPE_DONE", value |-> ""]}
    \cup {[type |-> "TYPE_CAPTURE", value |-> v] : v \in {"id", "ok"}}
    \cup {[type |-> "TYPE_STRING", value |-> v] : v \in {"eq?", "match?", "any-of?", "("}}

\* ts_query_new: a source that names a capture the pattern does not define
\* is not compiled.
ts_query_new(source) ==
    IF \E i \in DOMAIN source :
          source[i].type = "TYPE_CAPTURE" /\ source[i].value \notin CaptureNames
    THEN [ptr |-> Nil, errorType |-> "TSQueryErrorCapture"]
    ELSE [ptr |-> source, errorType |-> "TSQueryErrorNone"]

predicateError(row, message) ==
    [Kind |-> "QueryErrorPredicate", Row |-> row, Column |-> 0, Offset |-> 0,
     Message |-> message]

\* A regexp.Compile that takes every string for a regular expression.
regexpCompile_any(value) == TRUE

\* regexp.Compile returns no error, for the strings of SourceSteps.
regexpCompile(value) == value # "("

\* parseProperty
parseProperty(row, args) ==
    IF Len(args) = 0 \/ Len(args) > 3
    THEN predicateError(row,"Wrong number of arguments")
    ELSE IF Cardinality({i \in DOMAIN args : args[i].type = "TYPE_CAPTURE"}) > 1
    THEN predicateError(row,"Unexpected second capture name")
    ELSE IF Cardinality({i \in DOMAIN args : args[i].type # "TYPE_CAPTURE"}) > 2
    THEN predicateError(row,"Unexpected third argument")
    ELSE IF \A i \in DOMAIN args : args[i].type = "TYPE_CAPTURE"
    THEN predicateError(row,"Missing key argument")
    ELSE Nil

\* The row fromRawParts finds for the pattern that starts at byteOffset: the
\* newlines of the source before it.
RECURSIVE PatternRow(_, _, _)
PatternRow(source, byteOffset, i) ==
    IF i > Len(source) \/ i - 1 >= byteOffset
    THEN 0
    ELSE (IF source[i] = "\n" THEN 1 ELSE 0) + PatternRow(source, byteOffset, i + 1)

\* The closure split of fromRawParts: the steps between the closing steps.
RECURSIVE split(_, _, _)
split(steps, current, parts) ==
    IF steps = <<>>
    THEN IF Len(current) > 0 THEN Append(parts, current) ELSE parts
    ELSE IF Head(steps).type = "TYPE_DONE"
    THEN split(Tail(steps), <<>>, Append(parts, current))
    ELSE split(Tail(steps), Append(current, Head(steps)), parts)

\* The body of the loop of fromRawParts over the predicates: the error the
\* predicate p is refused with, or nil.
predicateErrorOf(row, p) ==
    IF p[1].type # "TYPE_STRING"
    THEN predicateError(row,"Expected predicate to start with a function name.")
    ELSE CASE p[1].value \in {"eq?", "not-eq?", "any-eq?", "any-not-eq?"} ->
                IF Len(p) # 3
                THEN predicateError(row,"Wrong number of arguments to #eq? predicate.")
                ELSE IF p[2].type # "TYPE_CAPTURE"
                THEN predicateError(row,
                         "First argument to #eq? predicate must be a capture name.")
                ELSE Nil
           [] p[1].value \in {"match?", "not-match?", "any-match?", "any-not-match?"} ->
                IF Len(p) # 3
                THEN predicateError(row,"Wrong number of arguments to #match? predicate.")
                ELSE IF p[2].type # "TYPE_CAPTURE"
                THEN predicateError(row,
                         "First argument to #match? predicate must be a capture name.")
                ELSE IF p[3].type = "TYPE_CAPTURE"
                THEN predicateError(row,
                         "Second argument to #match? predicate must be a literal.")
                ELSE IF ~regexpCompile(p[3].value)
                THEN predicateError(row,"Invalid regex")
                ELSE Nil
           [] p[1].value \in {"set!", "is?", "is-not?"} ->
                parseProperty(row, Tail(p))
           [] p[1].value \in {"any-of?", "not-any-of?"} ->
                IF Len(p) < 2
                THEN predicateError(row,"Wrong number of arguments to #any-of? predicate.")
                ELSE IF p[2].type # "TYPE_CAPTURE"
                THEN predicateError(row,
                         "First argument to #any-of? predicate must be a capture name.")
                ELSE IF \E k \in 3..Len(p) : p[k].type = "TYPE_CAPTURE"
                THEN predicateError(row,"Arguments to #any-of? predicate must be literals.")
                ELSE Nil
           [] OTHER -> Nil

\* fromRawParts, from the predicates split gave: the query with its
\* predicates, or nil and the error of the first predicate that is refused.
RECURSIVE fromRawParts(_, _, _)
fromRawParts(row, predicates, built) ==
    IF predicates = <<>>
    THEN [query |-> [predicates |-> built], err |-> Nil]
    ELSE IF Len(Head(predicates)) = 0
    THEN fromRawParts(row, Tail(predicates), built)
    ELSE IF predicateErrorOf(row, Head(predicates)) # Nil
    THEN [query |-> Nil, err |-> predicateErrorOf(row, Head(predicates))]
    ELSE fromRawParts(row, Tail(predicates), Append(built, Head(predicates)))

queryCallIdle ==
    UNCHANGED <<language, included_ranges, cancellation_flag, timeout_micros,
                stack, position, canceled_balancing, flag, pc, call_input,
                call_options, since, call_origin, halt_stack, halt_pos,
                halt_cause, reads, arg_ranges, treeVars, threads, arg_edit, cursor>>

\* The source is complete: each of its predicates is closed.
Closed(source) ==
    IF source = <<>> THEN TRUE ELSE source[Len(source)].type = "TYPE_DONE"

\* The caller writes the next step of the source: a predicate starts with
\* its name and has a closing step behind its last argument.
WriteStep(step) ==
    /\ Len(arg_source) < MaxSteps
    /\ Closed(arg_source) => step.type = "TYPE_STRING"
    /\ arg_source' = Append(arg_source, step)
    /\ result' = [op |-> "none"]
    /\ queryCallIdle

\* NewQuery: the error of the engine, or what fromRawParts returns.
NewQuery ==
    /\ Closed(arg_source)
    /\ \E compiled \in {ts_query_new(arg_source)} :
          result' =
              IF compiled.ptr = Nil
              THEN [op |-> "NewQuery", query |-> Nil,
                    err |-> [Kind |->
                               CASE compiled.errorType = "TSQueryErrorLanguage" ->
                                      "QueryErrorLanguage"
                                 [] compiled.errorType = "TSQueryErrorNodeType" ->
                                      "QueryErrorNodeType"
                                 [] compiled.errorType = "TSQueryErrorField" ->
                                      "QueryErrorField"
                                 [] compiled.errorType = "TSQueryErrorCapture" ->
                                      "QueryErrorCapture"
                                 [] compiled.errorType = "TSQueryErrorStructure" ->
                                      "QueryErrorStructure"
                                 [] OTHER -> "QueryErrorSyntax",
                             Message |-> ""]]
              ELSE [op |-> "NewQuery"]
                   @@ fromRawParts(PatternRow(<<>>, 0, 1),
                                   split(compiled.ptr, <<>>, <<>>), <<>>)
    /\ UNCHANGED arg_source
    /\ queryCallIdle

InitNewQuery ==
    /\ InitParser /\ arg_ranges = <<>> /\ NoTrees
    /\ threads = <<>> /\ arg_edit = None /\ cursor = None
    /\ arg_source = <<>>

NextNewQuery ==
    \/ \E step \in SourceSteps : WriteStep(step)
    \/ NewQuery

SpecNewQuery == InitNewQuery /\ [][NextNewQuery]_vars

-----------------------------------------------------------------------------
(* The position of a QueryError in the text of the source.  Here the       *)
(* source of the pending NewQuery call is its text, byte by byte.          *)

\* The bytes a source is written with.
SourceBytes == {"\n", " ", "(", "a"}

\* The bytes of a name, as NewQuery takes them.
NameBytes == {"a"}

\* The kinds of error the engine refuses a source with.
TSQueryErrors ==
    {"TSQueryErrorSyntax", "TSQueryErrorNodeType", "TSQueryErrorField",
     "TSQueryErrorCapture", "TSQueryErrorStructure", "TSQueryErrorLanguage"}

\* The predicate steps of ((identifier) @id (#eq? @id)).
MalformedSteps ==
    <<[type |-> "TYPE_STRING", value |-> "eq?"],
      [type |-> "TYPE_CAPTURE", value |-> "id"],
      [type |-> "TYPE_DONE", value |-> ""]>>

\* strings.Split(source, "\n")
RECURSIVE stringsSplit(_, _, _)
stringsSplit(source, line, lines) ==
    IF source = <<>>
    THEN Append(lines, line)
    ELSE IF Head(source) = "\n"
    THEN stringsSplit(Tail(source), <<>>, Append(lines, line))
    ELSE stringsSplit(Tail(source), Append(line, Head(source)), lines)

\* A loop over the lines that takes a line to end at its last byte.
RECURSIVE LineOfError_unterminated(_, _, _, _)
LineOfError_unterminated(lines, offset, lineStart, row) ==
    IF lines = <<>>
    THEN [lineStart |-> lineStart, row |-> row, lineContainingError |-> <<>>]
    ELSE IF lineStart + Len(Head(lines)) > offset
    THEN [lineStart |-> lineStart, row |-> row, lineContainingError |-> Head(lines)]
    ELSE LineOfError_unterminated(Tail(lines), offset,
                                  lineStart + Len(Head(lines)), row + 1)

\* The loop of NewQuery over the lines of the source, up to the line that
\* ends behind the offset of the error.
RECURSIVE LineOfError(_, _, _, _)
LineOfError(lines, offset, lineStart, row) ==
    IF lines = <<>>
    THEN [lineStart |-> lineStart, row |-> row, lineContainingError |-> <<>>]
    ELSE IF lineStart + Len(Head(lines)) + 1 > offset
    THEN [lineStart |-> lineStart, row |-> row, lineContainingError |-> Head(lines)]
    ELSE LineOfError(Tail(lines), offset, lineStart + Len(Head(lines)) + 1, row + 1)

\* The name at the head of the suffix bytes[offset:].
RECURSIVE NameOf(_)
NameOf(suffix) ==
    IF suffix = <<>> \/ Head(suffix) \notin NameBytes
    THEN <<>>
    ELSE <<Head(suffix)>> \o NameOf(Tail(suffix))

\* The error NewQuery builds when the engine refused the source at
\* errorOffset with errorType; the slice bytes[offset:] panics when the
\* offset is behind the end of the source.
QueryErrorAt(source, errorOffset, errorType) ==
    IF errorType = "TSQueryErrorLanguage"
    THEN [Kind |-> "QueryErrorLanguage", Row |-> 0, Column |-> 0, Offset |-> 0,
          Message |-> "LanguageError"]
    ELSE LET at == LineOfError(stringsSplit(source, <<>>, <<>>), errorOffset, 0, 0)
             named == errorType \in {"TSQueryErrorNodeType", "TSQueryErrorField",
                                     "TSQueryErrorCapture"}
         IN IF named /\ errorOffset > Len(source)
            THEN [Kind |-> "panic"]
            ELSE [Kind |->
                    CASE errorType = "TSQueryErrorNodeType" -> "QueryErrorNodeType"
                      [] errorType = "TSQueryErrorField" -> "QueryErrorField"
                      [] errorType = "TSQueryErrorCapture" -> "QueryErrorCapture"
                      [] errorType = "TSQueryErrorStructure" -> "QueryErrorStructure"
                      [] OTHER -> "QueryErrorSyntax",
                  Row |-> at.row,
                  Column |-> errorOffset - at.lineStart,
                  Offset |-> errorOffset,
                  Message |->
                    IF named
                    THEN NameOf(SubSeq(source, errorOffset + 1, Len(source)))
                    ELSE IF at.lineContainingError = <<>>
                    THEN <<"Unexpected EOF">>
                    ELSE at.lineContainingError \o <<"\n">>
                         \o [k \in 1..(errorOffset - at.lineStart) |-> " "] \o <<"^">>]

\* The caller writes the next byte of the source.
WriteByte(byte) ==
    /\ Len(arg_source) < MaxSource
    /\ arg_source' = Append(arg_source, byte)
    /\ result' = [op |-> "none"]
    /\ queryCallIdle

\* NewQuery of a source the engine refuses: ts_query_new reports an offset
\* within the source, its end included.
NewQueryRefused(errorOffset, errorType) ==
    /\ errorOffset <= Len(arg_source)
    /\ result' = [op |-> "NewQuery", query |-> Nil,
                  err |-> QueryErrorAt(arg_source, errorOffset, errorType),
                  errorOffset |-> errorOffset]
    /\ UNCHANGED arg_source
    /\ queryCallIdle

\* NewQuery of a source the engine compiles, whose pattern starts at
\* byteOffset, behind blanks and newlines, and has the predicate (#eq? @id).
NewQueryMalformed(byteOffset) ==
    /\ byteOffset < Len(arg_source)
    /\ arg_source[byteOffset + 1] = "("
    /\ \A i \in 1..byteOffset : arg_source[i] \in {"\n", " "}
    /\ result' = [op |-> "NewQuery", byteOffset |-> byteOffset]
                 @@ fromRawParts(PatternRow(arg_source, byteOffset, 1),
                                 split(MalformedSteps, <<>>, <<>>), <<>>)
    /\ UNCHANGED arg_source
    /\ queryCallIdle

NextQueryError ==
    \/ \E byte \in SourceBytes : WriteByte(byte)
    \/ \E errorOffset \in 0..MaxSource, errorType \in TSQueryErrors :
          NewQueryRefused(errorOffset, errorType)
    \/ \E byteOffset \in 0..MaxSource : NewQueryMalformed(byteOffset)

SpecQueryError == InitNewQuery /\ [][NextQueryError]_vars

-----------------------------------------------------------------------------
(* TreeCursor.  A walked tree is given by the parent of each of its nodes  *)
(* 1..n, the root being node 0; the nodes are numbered in the order of     *)
(* their start in the document.  The cursor is the engine's stack of       *)
(* frames, from the node the cursor was created on to its current node.    *)

\* The children of node n, in the order of the document.
ChildrenOf(tree, n) ==
    LET S == {i \in DOMAIN tree : tree[i] = n}
    IN [k \in 1..Cardinality(S) |-> CHOOSE c \in S : Cardinality({d \in S : d < c}) = k - 1]

\* Node a is node n or one of the nodes above it.
RECURSIVE IsAncestorOrSelf(_, _, _)
IsAncestorOrSelf(tree, a, n) ==
    IF a = n THEN TRUE
    ELSE IF n = 0 THEN FALSE
    ELSE IsAncestorOrSelf(tree, a, tree[n])

\* The trees of up to MaxNodes nodes below the root: a node follows the
\* last node of the subtree of its previous sibling, or is the first child
\* of the node before it.
TreeShapes ==
    UNION {{tree \in [1..n -> 0..(n - 1)] :
               \A i \in 1..n : /\ tree[i] < i
                               /\ IsAncestorOrSelf(tree, tree[i], i - 1)} :
           n \in 0..MaxNodes}

\* Node.DescendantCount: the nodes of the subtree of node n, n included.
DescendantCount(tree, n) ==
    Cardinality({i \in {n} \cup DOMAIN tree : IsAncestorOrSelf(tree, n, i)})

\* ts_tree_cursor_new
newTreeCursor(tree, node) ==
    [tree |-> tree,
     frames |-> <<[node |-> node, child_index |-> 0, descendant_index |-> 0]>>]

\* The frame of the current node.
Top(tc) == tc.frames[Len(tc.frames)]

\* TreeCursor.Node
CursorNode(tc) == Top(tc).node

\* TreeCursor.Depth
Depth(tc) == Len(tc.frames) - 1

\* TreeCursor.DescendantIndex
DescendantIndex(tc) == Top(tc).descendant_index

\* The descendant index of the k-th child of the current node: behind the
\* current node and the subtrees of the children before it.
RECURSIVE ChildDescendantIndex(_, _, _)
ChildDescendantIndex(tc, children, k) ==
    IF k = 1
    THEN DescendantIndex(tc) + 1
    ELSE ChildDescendantIndex(tc, children, k - 1)
         + DescendantCount(tc.tree, children[k - 1])

\* The cursor a frame deeper, on the k-th child of its current node.
Descend(tc, k) ==
    LET children == ChildrenOf(tc.tree, CursorNode(tc))
    IN [tc EXCEPT !.frames =
            Append(@, [node |-> children[k], child_index |-> k - 1,
                       descendant_index |-> ChildDescendantIndex(tc, children, k)])]

\* The cursor a frame higher.
Ascend(tc) == [tc EXCEPT !.frames = SubSeq(@, 1, Len(@) - 1)]

ts_tree_cursor_goto_first_child(tc) ==
    IF Len(ChildrenOf(tc.tree, CursorNode(tc))) = 0
    THEN [moved |-> FALSE, cursor |-> tc]
    ELSE [moved |-> TRUE, cursor |-> Descend(tc, 1)]

ts_tree_cursor_goto_last_child(tc) ==
    IF Len(ChildrenOf(tc.tree, CursorNode(tc))) = 0
    THEN [moved |-> FALSE, cursor |-> tc]
    ELSE [moved |-> TRUE,
          cursor |-> Descend(tc, Len(ChildrenOf(tc.tree, CursorNode(tc))))]

ts_tree_cursor_goto_parent(tc) ==
    IF Len(tc.frames) = 1
    THEN [moved |-> FALSE, cursor |-> tc]
    ELSE [moved |-> TRUE, cursor |-> Ascend(tc)]

\* The step to a sibling of the current node, by (+1) or by (-1) children.
GotoSibling(tc, by) ==
    IF Len(tc.frames) = 1
    THEN [moved |-> FALSE, cursor |-> tc]
    ELSE LET k == Top(tc).child_index + 1 + by
         IN IF k < 1 \/ k > Len(ChildrenOf(tc.tree, CursorNode(Ascend(tc))))
            THEN [moved |-> FALSE, cursor |-> tc]
            ELSE [moved |-> TRUE, cursor |-> Descend(Ascend(tc), k)]

ts_tree_cursor_goto_next_sibling(tc) == GotoSibling(tc, 1)

ts_tree_cursor_goto_previous_sibling(tc) == GotoSibling(tc, -1)

\* The walk up of ts_tree_cursor_goto_descendant: to the nearest frame whose
\* subtree holds the goal.
RECURSIVE AscendTo(_, _)
AscendTo(tc, goal) ==
    IF \/ Len(tc.frames) = 1
       \/ /\ DescendantIndex(tc) <= goal
          /\ goal < DescendantIndex(tc) + DescendantCount(tc.tree, CursorNode(tc))
    THEN tc
    ELSE AscendTo(Ascend(tc), goal)

\* The walk down of ts_tree_cursor_goto_descendant: into the last child
\* that starts at or before the goal, until the goal is the current node or
\* the current node has no children.
RECURSIVE DescendTo(_, _)
DescendTo(tc, goal) ==
    LET children == ChildrenOf(tc.tree, CursorNode(tc))
        before == {k \in DOMAIN children : ChildDescendantIndex(tc, children, k) <= goal}
    IN IF DescendantIndex(tc) = goal \/ before = {}
       THEN tc
       ELSE DescendTo(Descend(tc, CHOOSE k \in before : \A j \in before : j <= k), goal)

ts_tree_cursor_goto_descendant(tc, goal) == DescendTo(AscendTo(tc, goal), goal)

GotoFirstChild ==
    /\ \E next \in {ts_tree_cursor_goto_first_child(cursor)} :
          /\ cursor' = next.cursor
          /\ result' = [op |-> "GotoFirstChild", value |-> next.moved]
    /\ queryIdle

GotoLastChild ==
    /\ \E next \in {ts_tree_cursor_goto_last_child(cursor)} :
          /\ cursor' = next.cursor
          /\ result' = [op |-> "GotoLastChild", value |-> next.moved]
    /\ queryIdle

GotoParent ==
    /\ \E next \in {ts_tree_cursor_goto_parent(cursor)} :
          /\ cursor' = next.cursor
          /\ result' = [op |-> "GotoParent", value |-> next.moved]
    /\ queryIdle

GotoNextSibling ==
    /\ \E next \in {ts_tree_cursor_goto_next_sibling(cursor)} :
          /\ cursor' = next.cursor
          /\ result' = [op |-> "GotoNextSibling", value |-> next.moved]
    /\ queryIdle

\* A GotoPreviousSibling that steps to the next sibling.
GotoPreviousSibling_forward ==
    /\ \E next \in {ts_tree_cursor_goto_next_sibling(cursor)} :
          /\ cursor' = next.cursor
          /\ result' = [op |-> "GotoPreviousSibling", value |-> next.moved]
    /\ queryIdle

GotoPreviousSibling ==
    /\ \E next \in {ts_tree_cursor_goto_previous_sibling(cursor)} :
          /\ cursor' = next.cursor
          /\ result' = [op |-> "GotoPreviousSibling", value |-> next.moved]
    /\ queryIdle

\* A GotoDescendant that counts the descendants from one.
GotoDescendant_fromOne(descendantIndex) ==
    /\ descendantIndex < DescendantCount(cursor.tree, cursor.frames[1].node)
    /\ cursor' = ts_tree_cursor_goto_descendant(
                     cursor, IF descendantIndex = 0 THEN 0 ELSE descendantIndex - 1)
    /\ result' = [op |-> "GotoDescendant", descendantIndex |-> descendantIndex]
    /\ queryIdle

\* GotoDescendant, for the indices of the descendants of the original node.
GotoDescendant(descendantIndex) ==
    /\ descendantIndex < DescendantCount(cursor.tree, cursor.frames[1].node)
    /\ cursor' = ts_tree_cursor_goto_descendant(cursor, descendantIndex)
    /\ result' = [op |-> "GotoDescendant", descendantIndex |-> descendantIndex]
    /\ queryIdle

\* Node.Walk, on any node of any tree.
InitCursor ==
    /\ InitParser /\ arg_ranges = <<>> /\ NoTrees
    /\ threads = <<>> /\ arg_edit = None /\ arg_source = None
    /\ \E tree \in TreeShapes :
          \E node \in {0} \cup DOMAIN tree : cursor = newTreeCursor(tree, node)

NextCursor ==
    \/ GotoFirstChild
    \/ GotoLastChild
    \/ GotoParent
    \/ GotoNextSibling
    \/ GotoPreviousSibling
    \/ \E descendantIndex \in 0..MaxNodes : GotoDescendant(descendantIndex)

SpecCursor == InitCursor /\ [][NextCursor]_vars

-----------------------------------------------------------------------------
(* The text predicates of a pattern, over matches with any number of nodes *)
(* for a capture.                                                          *)

\* The text predicates a pattern is written with: a comparison of the
\* capture @1 with a string, a regular expression or the capture @2.
PredicateSources ==
    {<<[type |-> "TYPE_STRING", value |-> name],
       [type |-> "TYPE_CAPTURE", value |-> "@1"], value>> :
        name \in {"eq?", "not-eq?", "any-eq?", "any-not-eq?"},
        value \in {[type |-> "TYPE_STRING", value |-> "a"],
                   [type |-> "TYPE_CAPTURE", value |-> "@2"]}}
    \cup
    {<<[type |-> "TYPE_STRING", value |-> name],
       [type |-> "TYPE_CAPTURE", value |-> "@1"],
       [type |-> "TYPE_STRING", value |-> value]>> :
        name \in {"match?", "not-match?", "any-match?", "any-not-match?"},
        value \in {"a", "."}}
    \cup
    {<<[type |-> "TYPE_STRING", value |-> name],
       [type |-> "TYPE_CAPTURE", value |-> "@1"],
       [type |-> "TYPE_STRING", value |-> "a"]>> : name \in {"any-of?", "not-any-of?"}}

\* A second predicate of the pattern.
SecondPredicate ==
    <<[type |-> "TYPE_STRING", value |-> "not-eq?"],
      [type |-> "TYPE_CAPTURE", value |-> "@2"],
      [type |-> "TYPE_STRING", value |-> "a"]>>

\* The query of one pattern with the predicates of source.
QueryOf(source) ==
    [source |-> source,
     TextPredicates |-> [k \in DOMAIN source |-> textPredicate(source[k])]]

\* The engine finds the next node of its match, captured as index.
CaptureNode(index) ==
    /\ Len(cursor.match.Captures) < Len(cursor.nodes)
    /\ cursor' = [cursor EXCEPT !.match.Captures =
                      Append(@, [Index |-> index, Node |-> Len(@) + 1])]
    /\ result' = [op |-> "none"]
    /\ queryIdle

\* QueryMatches.Next, when the engine returns the match: the match is
\* yielded if it satisfies the text predicates.
NextMatch ==
    /\ result' = [op |-> "Next",
                  match |-> IF SatisfiesTextPredicate(cursor.query, cursor.nodes,
                                                      cursor.match)
                            THEN cursor.match
                            ELSE Nil]
    /\ UNCHANGED cursor
    /\ queryIdle

InitPredicate ==
    /\ InitParser /\ arg_ranges = <<>> /\ NoTrees
    /\ threads = <<>> /\ arg_edit = None /\ arg_source = None
    /\ \E text \in Texts, p \in PredicateSources :
       \E source \in {<<p>>, <<p, SecondPredicate>>} :
          cursor = [query |-> QueryOf(source), nodes |-> QueryNodes(text),
                    match |-> [Captures |-> <<>>]]

NextPredicate ==
    \/ \E index \in {"@1", "@2"} : CaptureNode(index)
    \/ NextMatch

SpecPredicate == InitPredicate /\ [][NextPredicate]_vars

-----------------------------------------------------------------------------
(* Parser.ParseCtx.  Here threads holds one record for each ParseCtx call: *)
(* its context, its finish channel, the goroutine that watches the two,    *)
(* and the tree the call returned.                                         *)

parseCtxIdle ==
    UNCHANGED <<parserVars, callVars, since, arg_ranges, treeVars, arg_edit, cursor,
                arg_source>>

\* A goroutine has stored through a nil pointer: the process has panicked.
Panicked == \E i \in DOMAIN threads : threads[i].watcher = "panic"

\* The ParseCtx call that is running, if its Parse has not begun, is
\* running, or has returned.
InParseCtx == threads # <<>> /\ threads[Len(threads)].stage = "go"

\* ParseCtx up to its call of Parse: the finish channel and, for a context
\* that can be cancelled, the goroutine at its select.
ParseCtx(cancellable) ==
    /\ ~Panicked
    /\ pc = "idle"
    /\ ~InParseCtx
    /\ Len(threads) < MaxCalls
    /\ threads' = Append(threads,
                         [ctx |-> IF cancellable THEN "live" ELSE "background",
                          finish |-> "open",
                          watcher |-> IF cancellable THEN "select" ELSE "none",
                          stage |-> "go",
                          tree |-> Nil])
    /\ result' = None
    /\ UNCHANGED flag
    /\ parseCtxIdle

\* tree := p.Parse(text, oldTree), up to the point where the engine starts.
ParseCtxParse(text) ==
    /\ ~Panicked
    /\ InParseCtx
    /\ result = None
    /\ Parse(text)

\* The steps of the engine in the Parse call of ParseCtx.
ParseCtxLexToken == ~Panicked /\ LexToken

ParseCtxCheckpoint == ~Panicked /\ Checkpoint

ParseCtxBalance == ~Panicked /\ Balance

\* close(finish); return tree
ParseCtxReturn ==
    /\ ~Panicked
    /\ InParseCtx
    /\ pc = "idle"
    /\ result # None
    /\ threads' = [threads EXCEPT ![Len(threads)].finish = "closed",
                                  ![Len(threads)].stage = "returned",
                                  ![Len(threads)].tree = result.tree]
    /\ result' = [op |-> "ParseCtx", tree |-> result.tree]
    /\ UNCHANGED flag
    /\ parseCtxIdle

\* The context of the i-th call is cancelled, while the call runs or later.
CancelCtx(i) ==
    /\ ~Panicked
    /\ threads[i].ctx = "live"
    /\ threads' = [threads EXCEPT ![i].ctx = "cancelled"]
    /\ UNCHANGED <<result, flag>>
    /\ parseCtxIdle

\* The select of the goroutine of the i-th call: one of the cases that are
\* ready, the context's Done or the closed finish channel.
WatcherSelect(i) ==
    /\ ~Panicked
    /\ threads[i].watcher = "select"
    /\ \E ready \in {"Done", "finish"} :
          /\ ready = "Done" => threads[i].ctx = "cancelled"
          /\ ready = "finish" => threads[i].finish = "closed"
          /\ threads' = [threads EXCEPT
                            ![i].watcher = IF ready = "Done" THEN "store" ELSE "exit"]
    /\ UNCHANGED <<result, flag>>
    /\ parseCtxIdle

\* atomic.StoreUintptr(p.CancellationFlag(), 1) in the goroutine of the i-th
\* call: a store to the cell the parser points at, or a nil dereference.
WatcherStore(i) ==
    /\ ~Panicked
    /\ threads[i].watcher = "store"
    /\ IF CancellationFlag = NULL
       THEN /\ threads' = [threads EXCEPT ![i].watcher = "panic"]
            /\ UNCHANGED flag
       ELSE /\ threads' = [threads EXCEPT ![i].watcher = "exit"]
            /\ flag' = 1
    /\ UNCHANGED result
    /\ parseCtxIdle

\* The caller installs its flag cell before a call.
ParseCtxSetCancellationFlag == ~Panicked /\ ~InParseCtx /\ SetCancellationFlag(FlagPtr)

\* The caller gives the parser its language before its first call.
ParseCtxSetLanguage(l) == threads = <<>> /\ SetLanguage(l)

NextParseCtx ==
    \/ \E l \in Languages : ParseCtxSetLanguage(l)
    \/ ParseCtxSetCancellationFlag
    \/ \E cancellable \in BOOLEAN : ParseCtx(cancellable)
    \/ \E text \in Texts : ParseCtxParse(text)
    \/ ParseCtxLexToken
    \/ ParseCtxCheckpoint
    \/ ParseCtxBalance
    \/ ParseCtxReturn
    \/ \E i \in DOMAIN threads : CancelCtx(i)
    \/ \E i \in DOMAIN threads : WatcherSelect(i)
    \/ \E i \in DOMAIN threads : WatcherStore(i)

SpecParseCtx == Init /\ [][NextParseCtx]_vars

-----------------------------------------------------------------------------
(* The memory of a ParseWithOptions call and the allocator hooks.  Here    *)
(* cursor holds the memory of the process: the hooks, the buffers, the     *)
(* handles of the pointer store and where the running call is.             *)

Hooks == {"malloc", "calloc", "realloc", "free"}

\* The hooks as the caller of SetAllocator gives them: each is nil or a
\* function of the caller's own allocator; the three allocating hooks are
\* given together.
NewHooks ==
    {new \in [Hooks -> {"nil", "custom"}] :
        new["calloc"] = new["malloc"] /\ new["realloc"] = new["malloc"]}

\* malloc_fn, calloc_fn, realloc_fn and free_fn after init: each holds a nil
\* function.  The engine starts with its default functions.
InitAllocator ==
    [fns |-> [h \in Hooks |-> "nil"],
     ts_current |-> [h \in Hooks |-> "default"]]

\* The allocator that serves a call of go_malloc, go_calloc, go_realloc or
\* go_free: the function stored for the hook when it is not nil, the C
\* library otherwise.  A stored wrapper of the C library function is "libc".
go_fn(memory, hook) ==
    IF memory.fns[hook] # "nil" THEN memory.fns[hook] ELSE "libc"

\* go_free: the allocator the pointer is released by.
go_free(memory) == go_fn(memory, "free")

\* The allocator behind a function of the engine (ts_malloc, ts_calloc,
\* ts_realloc, ts_free): the C library by default, the exported Go function
\* when ts_set_allocator was given c_malloc_fn, c_calloc_fn, c_realloc_fn or
\* c_free_fn.
ts_current(memory, hook) ==
    IF memory.ts_current[hook] = "default" THEN "libc" ELSE go_fn(memory, hook)

\* C.CString: the bytes are copied into memory of the C library's malloc.
CString == "libc"

Live(buffer) == buffer.frees = <<>>

cursorIdle ==
    UNCHANGED <<parserVars, callVars, flag, since, arg_ranges, treeVars, threads,
                arg_edit, arg_source>>

\* SetAllocator(newMalloc, newCalloc, newRealloc, newFree).  The caller
\* changes the allocator between two calls and when the engine holds no
\* memory of the allocator before.
SetAllocator(new) ==
    /\ cursor.stage = "idle"
    /\ \A b \in DOMAIN cursor.buffers : ~Live(cursor.buffers[b])
    /\ cursor' =
          IF \A h \in Hooks : new[h] = "nil"
          THEN [cursor EXCEPT !.fns = [h \in Hooks |-> "nil"],
                              !.ts_current = [h \in Hooks |-> "default"]]
          ELSE [cursor EXCEPT
                  !.fns = [h \in Hooks |->
                              IF new[h] # "nil" THEN "custom" ELSE "libc"],
                  !.ts_current = [h \in Hooks |->
                              IF new[h] # "nil" THEN "c_fn" ELSE "default"]]
    /\ result' = [op |-> "SetAllocator"]
    /\ cursorIdle

\* ParseWithOptions up to the call of the engine: the payload is saved in
\* the pointer store and so are the options when there are any.
ParseWithOptionsEnter(options) ==
    /\ cursor.stage = "idle"
    /\ cursor.calls < MaxCalls
    /\ cursor' =
          [cursor EXCEPT
             !.stage = "native",
             !.calls = @ + 1,
             !.cStrings = <<>>,
             !.chunk = 0,
             !.handles =
                 @ \o <<[of |-> "payload", call |-> cursor.calls + 1, unrefs |-> 0]>>
                   \o (IF options
                       THEN <<[of |-> "options", call |-> cursor.calls + 1,
                               unrefs |-> 0]>>
                       ELSE <<>>)]
    /\ result' = None
    /\ cursorIdle

\* The engine asks for a chunk: readUTF8 copies the text of the callback
\* into a C string, appends it to payload.cStrings and hands it to the
\* lexer, which reads it until it asks for the next one.
ReadCString ==
    /\ cursor.stage = "native"
    /\ Len(cursor.cStrings) < MaxChunks
    /\ cursor' =
          [cursor EXCEPT
             !.buffers = Append(@, [kind |-> "chunk", call |-> cursor.calls,
                                    by |-> CString, frees |-> <<>>,
                                    read |-> FALSE]),
             !.cStrings = Append(@, Len(cursor.buffers) + 1),
             !.chunk = Len(cursor.buffers) + 1]
    /\ UNCHANGED result
    /\ cursorIdle

\* The engine allocates memory for the tree it builds.
ts_alloc(hook) ==
    /\ cursor.stage = "native"
    /\ Cardinality({b \in DOMAIN cursor.buffers :
                       /\ cursor.buffers[b].kind = "engine"
                       /\ cursor.buffers[b].call = cursor.calls}) < MaxAllocs
    /\ cursor' =
          [cursor EXCEPT
             !.buffers = Append(@, [kind |-> "engine", call |-> cursor.calls,
                                    by |-> ts_current(cursor, hook),
                                    frees |-> <<>>, read |-> FALSE])]
    /\ UNCHANGED result
    /\ cursorIdle

\* The engine releases memory it allocated: while it parses, or later when
\* the caller closes the tree.
ts_free(b) ==
    /\ cursor.buffers[b].kind = "engine"
    /\ Live(cursor.buffers[b])
    /\ cursor' = [cursor EXCEPT
                    !.buffers[b].frees = Append(@, ts_current(cursor, "free"))]
    /\ UNCHANGED result
    /\ cursorIdle

\* ts_parser_parse_with_options returns a tree or NULL: the engine reads no
\* chunk of the call any longer.
NativeReturn(cNewTree) ==
    /\ cursor.stage = "native"
    /\ cursor' = [cursor EXCEPT !.stage = "return", !.chunk = 0]
    /\ result' = [op |-> "ts_parser_parse_with_options", tree |-> cNewTree]
    /\ cursorIdle

\* The buffers after the deferred loop over payload.cStrings.
RECURSIVE FreeCStrings(_, _, _)
FreeCStrings(memory, buffers, cStrings) ==
    IF cStrings = <<>> THEN buffers
    ELSE FreeCStrings(memory,
            [buffers EXCEPT
                ![Head(cStrings)].frees = Append(@, go_free(memory)),
                ![Head(cStrings)].read = @ \/ memory.chunk = Head(cStrings)],
            Tail(cStrings))

\* The handles after pointer.Unref(cptr).
Unref(handles, call) ==
    [i \in DOMAIN handles |->
        IF handles[i].of = "payload" /\ handles[i].call = call
        THEN [handles[i] EXCEPT !.unrefs = @ + 1]
        ELSE handles[i]]

\* ParseWithOptions returns: the deferred calls run, pointer.Unref(cptr)
\* first and the loop over payload.cStrings after it.
ParseWithOptionsReturn ==
    /\ cursor.stage = "return"
    /\ cursor' =
          [cursor EXCEPT
             !.stage = "idle",
             !.handles = Unref(@, cursor.calls),
             !.buffers = FreeCStrings(cursor, @, cursor.cStrings)]
    /\ result' = [op |-> "ParseWithOptions",
                  tree |-> ParseResult(result.tree)]
    /\ cursorIdle

InitMemory ==
    /\ InitParser /\ arg_ranges = <<>> /\ NoTrees
    /\ threads = <<>> /\ arg_edit = None /\ arg_source = None
    /\ cursor = [fns |-> InitAllocator.fns,
                 ts_current |-> InitAllocator.ts_current,
                 buffers |-> <<>>, handles |-> <<>>, stage |-> "idle",
                 calls |-> 0, cStrings |-> <<>>, chunk |-> 0]

NextMemory ==
    \/ \E new \in NewHooks : SetAllocator(new)
    \/ \E options \in BOOLEAN : ParseWithOptionsEnter(options)
    \/ ReadCString
    \/ \E hook \in Hooks \ {"free"} : ts_alloc(hook)
    \/ \E b \in DOMAIN cursor.buffers : ts_free(b)
    \/ \E cNewTree \in {NULL, [kind |-> "tree"]} : NativeReturn(cNewTree)
    \/ ParseWithOptionsReturn

SpecMemory == InitMemory /\ [][NextMemory]_vars

\* The complete result of the cursor's query over its document and byte
\* range: the captures of every match, as positions of nodes.
CompleteMatches(c) ==
    {t \in [1..c.query.captures -> 1..Len(c.nodes)] :
        /\ \A k \in DOMAIN t : InByteRange(c, c.nodes[t[k]])
        /\ \A k \in DOMAIN t :
              k > 1 => IF c.query.anywhere THEN t[k - 1] < t[k] ELSE t[k - 1] + 1 = t[k]
        /\ SatisfiesTextPredicate(c.query, c.nodes, [captures |-> t])}

-----------------------------------------------------------------------------
(* Properties of halted, resumed and restarted parse calls.                *)

\* A parse call has returned and nothing was done since.
Returned == pc = "idle" /\ result.op = "Parse"
ReturnedTree == Returned /\ result.tree.kind = "tree"
ReturnedNil == Returned /\ result.tree = Nil

\* The call that returned was itself halted at a checkpoint.
CallHalted == Returned /\ since.halted

\* The nodes a parse of text makes of the included offsets from offset
\* from on, under the grammar lang and the ranges rs.
RECURSIVE NodesFrom(_, _, _, _)
NodesFrom(lang, rs, text, from) ==
    IF from >= Len(text) THEN <<>>
    ELSE (IF InRanges(rs, from) THEN <<Token(lang, text[from + 1], from)>> ELSE <<>>)
         \o NodesFrom(lang, rs, text, from + 1)

\* The call that returned began on a parser suspended by a halted call.
Resumed == call_origin.halted /\ ~call_origin.reset /\ ~call_origin.setlang

\* C1: a parse call that follows a halted one, with no Reset and no SetLanguage
\* between them, resumes where the halted call stopped: the tree it returns
\* starts with the tokens the halted call had consumed, it asks its input for
\* no offset before the one the halted call stopped at, and the rest of the
\* tree comes from the rest of the new input (nothing is read at all when
\* the halted call had reached the end of its input).
C1_ResumeKeepsConsumedPrefix ==
    (ReturnedTree /\ Resumed) =>
        LET nodes == result.tree.nodes
        IN /\ Len(nodes) >= Len(halt_stack)
           /\ SubSeq(nodes, 1, Len(halt_stack)) = halt_stack
           /\ \A q \in reads : q >= halt_pos
           /\ call_origin.balancing => (nodes = halt_stack /\ reads = {})
           /\ (~call_origin.balancing /\ call_input.kind = "slice") =>
                 SubSeq(nodes, Len(halt_stack) + 1, Len(nodes))
                    = NodesFrom(result.tree.language, included_ranges,
                                call_input.text, halt_pos)

\* A resumed call returned a tree whose first node is not what the first byte
\* of the text of this call lexes to: the change at the beginning is not seen.
C1_Witness ==
    /\ ReturnedTree /\ Resumed
    /\ call_input.kind = "slice" /\ Len(call_input.text) > 0
    /\ Len(result.tree.nodes) > 0
    /\ result.tree.nodes[1] # Token(result.tree.language, call_input.text[1], 0)

\* C2: after Reset the parse call that follows a halted one starts at byte 0:
\* it asks its input for offset 0 and the tree is the parse of the whole text
\* of this call.
C2_ResetRestartsFromZero ==
    (ReturnedTree /\ call_origin.halted /\ call_origin.reset) =>
        /\ 0 \in reads
        /\ call_input.kind = "slice"
        /\ result.tree.nodes
              = NodesFrom(result.tree.language, included_ranges, call_input.text, 0)

\* A call halted after a token was followed by Reset and by a call that
\* returned the tree of a text of two bytes.
C2_Witness ==
    /\ ReturnedTree /\ call_origin.halted /\ call_origin.reset
    /\ ~call_origin.balancing
    /\ Len(result.tree.nodes) = 2

\* C3: a successful SetLanguage after a halted call discards the suspended
\* parse: the next call starts at byte 0 and its tree is the parse of the
\* whole text under the language that was assigned.
C3_SetLanguageRestarts ==
    (ReturnedTree /\ call_origin.halted /\ call_origin.setlang) =>
        /\ 0 \in reads
        /\ result.tree.language = language
        /\ call_input.kind = "slice"
        /\ result.tree.nodes = NodesFrom(language, included_ranges, call_input.text, 0)

\* After a halted call and a SetLanguage a call returned a tree with a node
\* that the other grammar would have lexed as an error.
C3_Witness ==
    /\ ReturnedTree /\ call_origin.halted /\ call_origin.setlang
    /\ ~call_origin.balancing
    /\ \E i \in 1..Len(result.tree.nodes) : result.tree.nodes[i].kind = "b"

HaltCauses == {"callback", "timeout", "flag"}

\* C4 as claimed: a parse call returns nil only when it was halted by the
\* progress callback, the timeout or the cancellation flag.
C4_NilOnlyWhenHalted ==
    ReturnedNil => (CallHalted /\ halt_cause \in HaltCauses)

\* C4, amended: a parse call returns nil only when it was halted or when the
\* parser holds no language; a call on a parser with a language that is not
\* halted returns a tree with one node for every included byte of the text
\* it lexed, an ERROR node exactly for the bytes the grammar has no token for.
C4_NilOnlyWhenHaltedOrNoLanguage ==
    /\ ReturnedNil => (language = NoLanguage \/ (CallHalted /\ halt_cause \in HaltCauses))
    /\ (Returned /\ ~CallHalted /\ language # NoLanguage) =>
          /\ ReturnedTree
          /\ (~Resumed /\ call_input.kind = "slice") =>
                /\ result.tree.nodes
                      = NodesFrom(language, included_ranges, call_input.text, 0)
                /\ \A i \in 1..Len(result.tree.nodes) :
                      LET n == result.tree.nodes[i]
                      IN (n.kind = "ERROR") <=>
                            (call_input.text[n.start_byte + 1]
                                \notin LanguageNamed(language).tokens)

\* A call that was not halted returned a tree with an ERROR node.
C4_Witness ==
    /\ ReturnedTree /\ ~Resumed
    /\ \E i \in 1..Len(result.tree.nodes) : result.tree.nodes[i].kind = "ERROR"

\* The running call can see the cancellation signal at its checkpoints.
SignalObserved ==
    flag # 0 /\ (call_options = "signal" \/ cancellation_flag # NULL)

\* C5: when the signal is set at a checkpoint of a running call, the call
\* ends there and returns nil; a call on a bounded text that no signal, no
\* timeout and no callback veto reaches returns a tree.
C5_SignalHaltsAtCheckpoint ==
    /\ [][(pc \in {"checkpoint", "balance"} /\ SignalObserved /\ pc' # pc)
            => (pc' = "idle" /\ result'.op = "Parse" /\ result'.tree = Nil)]_vars
    /\ [](( /\ Returned /\ language # NoLanguage /\ call_input.kind = "slice"
            /\ flag = 0 /\ timeout_micros = 0 /\ call_options \in {"nil", "signal"})
          => ReturnedTree)

\* A call on the endless input was halted by the signal read by its callback.
C5_Witness ==
    /\ ReturnedNil /\ CallHalted
    /\ call_input.kind = "endless"
    /\ call_options = "signal" /\ halt_cause = "callback"
    /\ Len(halt_stack) >= 2

-----------------------------------------------------------------------------
(* Properties of the setup calls.                                          *)

\* The list is in order as the claim words it: every range starts at or
\* after the end of the one before it and does not end before it starts.
RangesInOrder(ranges) ==
    \A i \in 1..Len(ranges) :
        /\ i > 1 => ranges[i].StartByte >= ranges[i - 1].EndByte
        /\ ranges[i].EndByte >= ranges[i].StartByte

\* The index (from 0) of the first range that starts before the end of the
\* one before it or ends before it starts.
FirstOffending(ranges) ==
    LET bad == {i \in 1..Len(ranges) :
                   \/ i > 1 /\ ranges[i].StartByte < ranges[i - 1].EndByte
                   \/ ranges[i].EndByte < ranges[i].StartByte}
    IN (CHOOSE i \in bad : \A j \in bad : i <= j) - 1

\* C6: SetIncludedRanges returns nil for a list in order and, for any other
\* list, an IncludedRangesError with the index of the first offending range.
C6_FirstOffendingIndex ==
    result.op = "SetIncludedRanges" =>
        IF RangesInOrder(result.arg)
        THEN result.err = Nil
        ELSE result.err = IncludedRangesError(FirstOffending(result.arg))

\* C6 for lists whose offsets all fit a uint32_t.
FitsUint32(ranges) ==
    \A i \in 1..Len(ranges) :
        ranges[i].StartByte <= UINT32_MAX /\ ranges[i].EndByte <= UINT32_MAX

C6_FirstOffendingIndexUint32 ==
    (result.op = "SetIncludedRanges" /\ FitsUint32(result.arg)) =>
        IF RangesInOrder(result.arg)
        THEN result.err = Nil
        ELSE result.err = IncludedRangesError(FirstOffending(result.arg))

\* C7: a SetIncludedRanges call that returns an IncludedRangesError leaves the
\* list that IncludedRanges() returns as it was, and a parse call that starts
\* afresh and returns a tree has lexed exactly the offsets of that list.
C7_FailedCallKeepsRanges ==
    /\ [][(result'.op = "SetIncludedRanges" /\ result'.err # Nil)
            => IncludedRanges' = IncludedRanges]_vars
    /\ []((ReturnedTree /\ ~Resumed /\ call_input.kind = "slice") =>
             /\ result.tree.included_ranges = included_ranges
             /\ result.tree.nodes
                  = NodesFrom(language, included_ranges, call_input.text, 0))

\* A list was rejected by a parser that held a list of its own.
C7_Witness ==
    /\ result.op = "SetIncludedRanges" /\ result.err # Nil
    /\ IncludedRanges = <<GoRange(0, 1)>>

\* C8: SetLanguage returns nil and assigns the language exactly when the ABI
\* version v of the language lies in [MIN_COMPATIBLE_LANGUAGE_VERSION,
\* LANGUAGE_VERSION]; for any other v it returns a LanguageError carrying v.
C8_SetLanguageByVersion ==
    result.op = "SetLanguage" =>
        LET v == LanguageNamed(result.arg).abi
        IN IF MIN_COMPATIBLE_LANGUAGE_VERSION <= v /\ v <= LANGUAGE_VERSION
           THEN result.err = Nil /\ Language = [kind |-> "Language", name |-> result.arg]
           ELSE result.err = [kind |-> "LanguageError", version |-> v]

\* A language of the oldest compatible version was assigned.
C8_Witness ==
    /\ result.op = "SetLanguage" /\ result.err = Nil
    /\ LanguageNamed(result.arg).abi = MIN_COMPATIBLE_LANGUAGE_VERSION

\* C9: a SetLanguage call that returns a LanguageError changes nothing:
\* Language() and IncludedRanges() return what they returned before and the
\* suspended parse is as it was.
C9_RejectedLanguageChangesNothing ==
    [][(result'.op = "SetLanguage" /\ result'.err # Nil)
          => /\ Language' = Language
             /\ IncludedRanges' = IncludedRanges
             /\ UNCHANGED <<stack, position, canceled_balancing>>]_vars

\* A language was rejected by a parser that held a language, a range list of
\* its own and a suspended parse.
C9_Witness ==
    /\ result.op = "SetLanguage" /\ result.err # Nil
    /\ language # NoLanguage
    /\ included_ranges # DEFAULT_RANGE
    /\ stack # <<>>

-----------------------------------------------------------------------------
(* Properties of trees.                                                    *)

\* C10: Tree.Edit on one tree changes no StartByte, EndByte or HasChanges of
\* any node seen through any other open tree, clone or original.
C10_EditLeavesOtherTreesAlone ==
    [][result'.op = "Edit" =>
          \A t \in Handles \ {result'.tree} : Open(t) => RootNode(t)' = RootNode(t)]_vars

\* A clone was edited while it shared subtrees with the original: the two
\* trees show different nodes and the original shows no change.
C10_Witness ==
    /\ result.op = "Edit" /\ result.tree = 2
    /\ Open(1) /\ Open(2)
    /\ RootNode(1) # RootNode(2)
    /\ \A n \in RootNode(1) : ~n.HasChanges
    /\ \E id \in Subtrees : heap[id].ref_count > 1

-----------------------------------------------------------------------------
(* Properties of threads that reparse clones of one tree.                  *)

\* The S-expression of the parse of a text from scratch.
ParsedSexp(lang, text) ==
    <<"program", [p \in 1..Len(text) |-> <<Token(lang, text[p], p - 1).kind, <<>>>>]>>

ThreadDone(i) == threads # <<>> /\ threads[i].pc = "done"

\* C11: threads that each own a parser and a clone of one tree edit their
\* clone and reparse it at the same time without interfering: the tree of the
\* thread that prepended i declarations is the parse of that thread's text,
\* its root has exactly i more children than the original's, and no step of
\* any thread changes what the original tree shows.
C11_ThreadsDoNotInterfere ==
    /\ [](\A i \in ThreadIds :
            ThreadDone(i) =>
               /\ ChildCount(threads[i].out) = ChildCount(1) + i
               /\ ToSexp(heap, ctrees[trees[threads[i].out]].root)
                    = ParsedSexp(ThreadLanguage, threads[i].text))
    /\ [][/\ RootNode(1)' = RootNode(1)
          /\ ToSexp(heap, ctrees[trees[1]].root)' = ToSexp(heap, ctrees[trees[1]].root)]_vars

\* Both threads are done, each after the other had edited its clone.
C11_Witness ==
    /\ \A i \in ThreadIds : ThreadDone(i)
    /\ Len(threads[1].source) = MaxLen

-----------------------------------------------------------------------------
(* Properties of Tree.Edit.                                                *)

\* The node of a tree at a path.
NodeAt(views, path) == CHOOSE v \in views : v.path = path

EditStep == result'.op = "Edit"

\* The node keeps its place, or moves by delta bytes, and is not marked.
Unmarked(a, b, delta) ==
    /\ b.StartByte = a.StartByte + delta
    /\ b.EndByte = a.EndByte + delta
    /\ b.HasChanges = a.HasChanges

\* The document still fits the offsets of the engine after the edit.
EditFits ==
    ts_subtree_total_bytes(heap, ctrees[trees[1]].root)
        + (arg_edit.NewEndByte - arg_edit.StartByte) <= UINT32_MAX

-----------------------------------------------------------------------------
(* Properties of the edit / undo round trip.                               *)

RoundTripAt(where) == threads # <<>> /\ threads[1].pc = where

-----------------------------------------------------------------------------
(* Properties of the input callback.                                       *)

\* Node.EndByte of the root node of a tree the parser returned.
TreeEndByte(tree) ==
    IF tree.nodes = <<>> THEN 0 ELSE tree.nodes[Len(tree.nodes)].end_byte

\* The offset from which the callback of the call returns an empty chunk.
InputEnd ==
    IF call_input.end < Len(call_input.text) THEN call_input.end ELSE Len(call_input.text)

\* C14: when the input callback returns an empty chunk at byte offset p, the
\* parser takes p for the end of the input: it asks for no text beyond p and
\* the root node of the tree it returns ends at p.
C14_EmptyChunkEndsInput ==
    (call_input # None /\ call_input.kind = "callback") =>
        /\ \A q \in reads : q <= InputEnd
        /\ ReturnedTree => (InputEnd \in reads /\ TreeEndByte(result.tree) = InputEnd)

\* A tree was returned for a callback that ended the input before the end
\* of its text.
C14_Witness ==
    /\ ReturnedTree
    /\ call_input.kind = "callback"
    /\ 0 < call_input.end /\ call_input.end < Len(call_input.text)

-----------------------------------------------------------------------------
(* C15: for a cursor whose match limit is K, the matches in progress at    *)
(* once never number more than K, at any point of an execution.            *)
C15_InProgressWithinMatchLimit ==
    /\ Len(cursor.states) <= cursor.limit
    /\ cursor.peak <= cursor.limit

\* An execution under the limit 1 reached the limit and dropped a match.
C15_Witness ==
    cursor.limit = 1 /\ cursor.peak = 1 /\ cursor.dropped > 0

-----------------------------------------------------------------------------
(* C16: iterating a cursor that has a match limit terminates; afterwards   *)
(* DidExceedMatchLimit reports true when matches in progress were dropped  *)
(* during the execution; every match that was yielded, with the captures  *)
(* it had when it was yielded, is a match of the complete result.          *)
C16_LimitedIterationEnds ==
    /\ [](\A i \in 1..Len(cursor.yielded) :
             \E t \in CompleteMatches(cursor) :
                 \A k \in DOMAIN cursor.yielded[i].captures :
                     cursor.yielded[i].captures[k] = t[k])
    /\ [](result.op = "DidExceedMatchLimit" /\ cursor.dropped > 0 => result.value)
    /\ ((cursor.mode # "none" /\ ~cursor.ended) ~> cursor.ended)

\* An iteration that dropped matches has yielded a match and ended, and the
\* caller has asked whether the limit was exceeded.
C16_Witness ==
    /\ cursor.ended /\ cursor.dropped > 0 /\ cursor.limit \in {1, 2}
    /\ cursor.yielded # <<>>
    /\ result.op = "DidExceedMatchLimit"

-----------------------------------------------------------------------------
(* C17: the iterators are fused: once Next has returned nil for an         *)
(* execution, every later call of Next on it returns nil too, however      *)
(* many calls follow, and yields nothing.                                  *)
C17_IteratorsAreFused ==
    [][cursor.ended /\ result'.op = "Next"
          => /\ result'.match = Nil
             /\ cursor'.ended
             /\ cursor'.yielded = cursor.yielded]_vars

\* Next has returned nil for an execution that had yielded two matches or
\* captures before.
C17_Witness ==
    /\ cursor.ended /\ Len(cursor.yielded) = 2
    /\ result.op = "Next" /\ result.match = Nil

-----------------------------------------------------------------------------
\* The captures an iteration yields from what Next returned on, when the
\* caller removes no match: the id of the match, the index of the capture
\* and the node.
RECURSIVE CapturesFrom(_)
CapturesFrom(next) ==
    IF next.match = Nil
    THEN [captures |-> <<>>, cursor |-> next.cursor]
    ELSE The({[rest EXCEPT !.captures =
                  <<[id |-> next.match.id, index |-> next.index,
                     node |-> next.match.captures[next.index + 1]]>> \o @] :
              rest \in {CapturesFrom(QueryCapturesNext(
                            ts_query_cursor_next_capture(next.cursor)))}})

\* The captures of the cursor's execution when the caller removes no match.
AllCaptures ==
    CapturesFrom(QueryCapturesNext(
        ts_query_cursor_next_capture(ts_query_cursor_exec(cursor, "captures"))))

\* The captures of the matches the caller did not remove.
NotRemoved(captures) == SelectSeq(captures, LAMBDA y : y.id \notin cursor.removed)

(* C18: once the caller has removed a match during a Captures iteration,   *)
(* the iterator yields no further capture of it, also not of nodes the     *)
(* match had not reached when it was removed; the captures of the other    *)
(* matches are the ones the iteration yields when no match is removed.     *)
C18_RemovedMatchYieldsNoMore ==
    /\ [][cursor.mode = "captures" /\ result'.op = "Next" /\ result'.match # Nil
             => result'.match.id \notin cursor.removed]_vars
    /\ [](/\ cursor.mode = "captures" /\ cursor.ended
          /\ ~cursor.did_exceed_match_limit
          /\ ~AllCaptures.cursor.did_exceed_match_limit
          => NotRemoved([i \in DOMAIN cursor.yielded |->
                            [id |-> cursor.yielded[i].id,
                             index |-> cursor.yielded[i].index,
                             node |-> cursor.yielded[i].captures[
                                          cursor.yielded[i].index + 1]]])
               = NotRemoved(AllCaptures.captures))

\* The caller has just removed a match in progress whose last node the walk
\* had not reached.
C18_Witness ==
    /\ cursor.mode = "captures" /\ result.op = "Remove"
    /\ \E i \in DOMAIN cursor.yielded :
          /\ cursor.yielded[i].id \in cursor.removed
          /\ cursor.yielded[i].captures[1] + cursor.query.captures - 1 > cursor.at

-----------------------------------------------------------------------------
\* The matches of the cursor's query all of whose nodes intersect the byte
\* range [s, e) the caller set, where an end byte of zero is no end.
MatchesWithin(s, e) ==
    {t \in [1..cursor.query.captures -> 1..Len(cursor.nodes)] :
        /\ \A k \in DOMAIN t :
              /\ cursor.nodes[t[k]].EndByte > s
              /\ e = 0 \/ cursor.nodes[t[k]].StartByte < e
        /\ \A k \in DOMAIN t :
              k > 1 => IF cursor.query.anywhere THEN t[k - 1] < t[k]
                       ELSE t[k - 1] + 1 = t[k]
        /\ SatisfiesTextPredicate(cursor.query, cursor.nodes, [captures |-> t])}

\* The match a comes before the match b in the document: it ends before b,
\* or ends with it and differs from it first by an earlier node.
Before(a, b) ==
    \/ a[Len(a)] < b[Len(b)]
    \/ /\ a[Len(a)] = b[Len(b)]
       /\ \E k \in DOMAIN a : a[k] < b[k] /\ \A h \in 1..(k - 1) : a[h] = b[h]

\* A Matches iteration that has ended without exceeding the match limit has
\* yielded exactly the matches within the byte range the caller set, in the
\* order of the document.
YieldedWithinRange ==
    (cursor.mode = "matches" /\ cursor.ended /\ ~cursor.did_exceed_match_limit) =>
        /\ {cursor.yielded[i].captures : i \in DOMAIN cursor.yielded}
             = MatchesWithin(cursor.range[1], cursor.range[2])
        /\ \A i, j \in DOMAIN cursor.yielded :
              i < j => Before(cursor.yielded[i].captures, cursor.yielded[j].captures)

(* C19: with SetByteRange(s, e) an execution yields exactly the matches    *)
(* whose nodes intersect the half-open byte range [s, e), in document      *)
(* order, and an end byte of zero means that the range has no upper bound. *)
C19_ByteRangeYieldsIntersecting == YieldedWithinRange

\* C19 for the byte ranges whose offsets fit a uint32_t.
C19_ByteRangeYieldsIntersectingUint32 ==
    (cursor.range[1] <= UINT32_MAX /\ cursor.range[2] <= UINT32_MAX) => YieldedWithinRange

\* An iteration under a byte range without an end has yielded some matches
\* of the document and left out others.
C19_WitnessUint32 ==
    /\ cursor.mode = "matches" /\ cursor.ended /\ ~cursor.did_exceed_match_limit
    /\ cursor.range = <<1, 0>>
    /\ cursor.yielded # <<>>
    /\ Len(cursor.yielded) < Cardinality(MatchesWithin(0, 0))

-----------------------------------------------------------------------------
\* The predicates of a source: the steps between two closing steps.
PredicatesOf(source) ==
    {SubSeq(source, ij[1], ij[2]) :
        ij \in {ij \in (DOMAIN source) \X (DOMAIN source) :
                  /\ ij[1] <= ij[2] /\ ij[2] < Len(source)
                  /\ IF ij[1] = 1 THEN TRUE ELSE source[ij[1] - 1].type = "TYPE_DONE"
                  /\ source[ij[2] + 1].type = "TYPE_DONE"
                  /\ \A k \in ij[1]..ij[2] : source[k].type # "TYPE_DONE"}}

\* A predicate NewQuery is to refuse.
Refused(p) ==
    LET eq == p[1].value \in {"eq?", "not-eq?", "any-eq?", "any-not-eq?"}
        match == p[1].value \in {"match?", "not-match?", "any-match?", "any-not-match?"}
        anyof == p[1].value \in {"any-of?", "not-any-of?"}
    IN \/ (eq \/ match) /\ Len(p) - 1 # 2
       \/ (eq \/ match \/ anyof) /\ Len(p) >= 2 /\ p[2].type = "TYPE_STRING"
       \/ match /\ Len(p) >= 3 /\ (p[3].type = "TYPE_CAPTURE" \/ p[3].value = "(")
       \/ anyof /\ \E k \in 3..Len(p) : p[k].type = "TYPE_CAPTURE"

(* C20, as worded: NewQuery returns a nil Query and a QueryError of kind    *)
(* QueryErrorPredicate whenever a predicate of the eq? or match? family    *)
(* does not have exactly two arguments, the first argument of a predicate  *)
(* of the eq?, match? or any-of? family is a literal, the second argument  *)
(* of a predicate of the match? family is a capture or no regular          *)
(* expression, or a value argument of a predicate of the any-of? family is *)
(* a capture.                                                              *)
C20_InvalidPredicateIsRefused ==
    (/\ result.op = "NewQuery"
     /\ \E p \in PredicatesOf(arg_source) : Refused(p))
        => /\ result.query = Nil
           /\ result.err # Nil
           /\ result.err.Kind = "QueryErrorPredicate"

(* C20, for the sources the engine compiles: NewQuery returns a nil Query  *)
(* and a QueryError of kind QueryErrorPredicate whenever one of their      *)
(* predicates is such a predicate; a source the engine does not compile    *)
(* has a nil Query and the error of the engine.                            *)
C20_CompiledInvalidPredicateIsRefused ==
    result.op = "NewQuery" =>
        /\ (/\ ts_query_new(arg_source).ptr # Nil
            /\ \E p \in PredicatesOf(arg_source) : Refused(p))
              => /\ result.query = Nil
                 /\ result.err # Nil
                 /\ result.err.Kind = "QueryErrorPredicate"
        /\ ts_query_new(arg_source).ptr = Nil
              => /\ result.query = Nil
                 /\ result.err # Nil
                 /\ result.err.Kind # "QueryErrorPredicate"

\* NewQuery has refused a source with a predicate of the match? family whose
\* second argument is no regular expression.
C20_Witness ==
    /\ result.op = "NewQuery" /\ result.query = Nil
    /\ result.err.Kind = "QueryErrorPredicate"
    /\ <<[type |-> "TYPE_STRING", value |-> "match?"],
          [type |-> "TYPE_CAPTURE", value |-> "id"],
          [type |-> "TYPE_STRING", value |-> "("]>> \in PredicatesOf(arg_source)

-----------------------------------------------------------------------------
\* The newlines of the source before the byte at offset.
NewlinesBefore(source, offset) ==
    {i \in 1..Len(source) : i <= offset /\ source[i] = "\n"}

\* The byte offset at which the row of the byte at offset starts.
RowStart(source, offset) ==
    IF NewlinesBefore(source, offset) = {}
    THEN 0
    ELSE CHOOSE i \in NewlinesBefore(source, offset) :
            \A j \in NewlinesBefore(source, offset) : j <= i

(* C21: when NewQuery rejects a malformed predicate, the Row and Column of *)
(* the QueryError are the row and column of the offending pattern and its  *)
(* Offset the byte offset of that pattern, wherever the pattern is in the  *)
(* source.                                                                 *)
C21_PredicateErrorAtPattern ==
    (/\ result.op = "NewQuery"
     /\ "byteOffset" \in DOMAIN result
     /\ result.err.Kind = "QueryErrorPredicate")
        => /\ result.err.Row = Cardinality(NewlinesBefore(arg_source, result.byteOffset))
           /\ result.err.Column
                 = result.byteOffset - RowStart(arg_source, result.byteOffset)
           /\ result.err.Offset = result.byteOffset

\* C21, for the row alone: the Row of the QueryError of a malformed
\* predicate is the row of the offending pattern, its Column and Offset 0.
C21_PredicateErrorRow ==
    (/\ result.op = "NewQuery"
     /\ "byteOffset" \in DOMAIN result)
        => /\ result.query = Nil
           /\ result.err.Kind = "QueryErrorPredicate"
           /\ result.err.Row = Cardinality(NewlinesBefore(arg_source, result.byteOffset))
           /\ result.err.Column = 0
           /\ result.err.Offset = 0

\* NewQuery has rejected the predicate of a pattern on the second row.
C21_WitnessRow ==
    /\ result.op = "NewQuery"
    /\ "byteOffset" \in DOMAIN result
    /\ result.err.Row = 1

(* C24: a QueryError of kind syntax, structure, node-type, field or        *)
(* capture has the byte offset of the error as its Offset, the number of   *)
(* newlines of source[0:Offset] as its Row and Offset less the byte offset *)
(* at which that row starts as its Column, for every error offset from 0   *)
(* up to and including len(source); building it never indexes outside the  *)
(* source.                                                                 *)
C24_QueryErrorPosition ==
    (/\ result.op = "NewQuery"
     /\ "errorOffset" \in DOMAIN result
     /\ result.err.Kind # "QueryErrorLanguage")
        => /\ result.err.Kind \in {"QueryErrorSyntax", "QueryErrorStructure",
                                   "QueryErrorNodeType", "QueryErrorField",
                                   "QueryErrorCapture"}
           /\ result.err.Offset = result.errorOffset
           /\ result.err.Row = Cardinality(NewlinesBefore(arg_source, result.errorOffset))
           /\ result.err.Column
                 = result.errorOffset - RowStart(arg_source, result.errorOffset)

\* NewQuery has built the error of a name at the end of a source of two
\* rows, behind a newline.
C24_Witness ==
    /\ result.op = "NewQuery"
    /\ "errorOffset" \in DOMAIN result
    /\ result.err.Kind = "QueryErrorCapture"
    /\ result.errorOffset = Len(arg_source)
    /\ result.err.Row = 1
    /\ result.err.Column > 0

-----------------------------------------------------------------------------
\* The node the cursor was created on.
OriginalNode(tc) == tc.frames[1].node

\* The nodes of the subtree of node n in pre-order: n, then the subtrees of
\* its children in the order of the document.
RECURSIVE PreOrder(_, _)
RECURSIVE PreOrderOfAll(_, _)
PreOrder(tree, n) == <<n>> \o PreOrderOfAll(tree, ChildrenOf(tree, n))
PreOrderOfAll(tree, nodes) ==
    IF nodes = <<>>
    THEN <<>>
    ELSE PreOrder(tree, Head(nodes)) \o PreOrderOfAll(tree, Tail(nodes))

\* The edges from node a down to node n, a being n or a node above it.
RECURSIVE DepthBelow(_, _, _)
DepthBelow(tree, a, n) == IF a = n THEN 0 ELSE 1 + DepthBelow(tree, a, tree[n])

\* The node a Goto method is to move to from node n, if there is one within
\* the subtree of the original node.
TargetOf(tc, method, n) ==
    LET siblings == IF n = 0 THEN {} ELSE {i \in DOMAIN tc.tree : tc.tree[i] = tc.tree[n]}
        children == {i \in DOMAIN tc.tree : tc.tree[i] = n}
    IN CASE method = "GotoFirstChild" -> {c \in children : \A d \in children : c <= d}
         [] method = "GotoLastChild" -> {c \in children : \A d \in children : d <= c}
         [] method = "GotoParent" -> IF n = OriginalNode(tc) THEN {} ELSE {tc.tree[n]}
         [] method = "GotoNextSibling" ->
              IF n = OriginalNode(tc) THEN {}
              ELSE {c \in siblings : c > n /\ \A d \in siblings : d > n => c <= d}
         [] method = "GotoPreviousSibling" ->
              IF n = OriginalNode(tc) THEN {}
              ELSE {c \in siblings : c < n /\ \A d \in siblings : d < n => d <= c}
         [] OTHER -> {}

(* C22: each of GotoFirstChild, GotoLastChild, GotoNextSibling,            *)
(* GotoPreviousSibling and GotoParent returns true exactly when the target *)
(* node exists within the subtree the cursor was created on, and then the  *)
(* cursor is on it; when it returns false the cursor has not moved: Node,  *)
(* Depth and DescendantIndex are as before the call.                       *)
C22_GotoReportsTheMove ==
    [][result'.op \in {"GotoFirstChild", "GotoLastChild", "GotoNextSibling",
                       "GotoPreviousSibling", "GotoParent"}
       => /\ result'.value
              <=> TargetOf(cursor, result'.op, CursorNode(cursor)) # {}
          /\ result'.value
              => CursorNode(cursor') \in TargetOf(cursor, result'.op, CursorNode(cursor))
          /\ ~result'.value
              => /\ CursorNode(cursor') = CursorNode(cursor)
                 /\ Depth(cursor') = Depth(cursor)
                 /\ DescendantIndex(cursor') = DescendantIndex(cursor)]_vars

\* GotoPreviousSibling has moved a cursor, created below the root of its
\* tree, to the first of two children.
C22_Witness ==
    /\ result.op = "GotoPreviousSibling" /\ result.value
    /\ OriginalNode(cursor) # 0
    /\ Depth(cursor) = 1

(* C23: for every index i below the DescendantCount of the cursor's        *)
(* original node, GotoDescendant(i) leaves the cursor on the i-th node of  *)
(* the pre-order traversal of that node, index 0 being the original node,  *)
(* wherever the cursor was before, with Depth the depth of that node below *)
(* the original node and DescendantIndex i.                                *)
C23_GotoDescendantIsPreOrder ==
    [][result'.op = "GotoDescendant"
       => /\ OriginalNode(cursor') = OriginalNode(cursor)
          /\ CursorNode(cursor')
                = PreOrder(cursor.tree, OriginalNode(cursor))[result'.descendantIndex + 1]
          /\ Depth(cursor')
                = DepthBelow(cursor.tree, OriginalNode(cursor), CursorNode(cursor'))
          /\ DescendantIndex(cursor') = result'.descendantIndex]_vars

\* GotoDescendant has put a cursor, created below the root of its tree, on
\* the second child of its original node.
C23_Witness ==
    /\ result.op = "GotoDescendant"
    /\ OriginalNode(cursor) # 0
    /\ Depth(cursor) = 1
    /\ Top(cursor).child_index = 1

-----------------------------------------------------------------------------
\* The node of the capture satisfies the comparison the predicate p names:
\* equal to the string, or matched by the regular expression, or not so for
\* a negated operator.
SatisfiesComparison(p, nodes, capture) ==
    LET holds == IF p[1].value \in {"eq?", "not-eq?", "any-eq?", "any-not-eq?"}
                 THEN nodes[capture.Node].Text = p[3].value
                 ELSE p[3].value = "." \/ nodes[capture.Node].Text = p[3].value
    IN IF p[1].value \in {"eq?", "any-eq?", "match?", "any-match?"}
       THEN holds
       ELSE ~holds

\* The predicate p, a comparison of a capture with a literal, accepts the
\* match with the quantification its operator names.
Accepts(p, nodes, Captures) ==
    LET captured == {k \in DOMAIN Captures : Captures[k].Index = p[2].value}
    IN IF p[1].value \in {"eq?", "not-eq?", "match?", "not-match?"}
       THEN \A k \in captured : SatisfiesComparison(p, nodes, Captures[k])
       ELSE \E k \in captured : SatisfiesComparison(p, nodes, Captures[k])

\* The comparisons with a literal among the predicates of the source.
LiteralComparisons(source) ==
    {k \in DOMAIN source :
        /\ source[k][1].value \notin {"any-of?", "not-any-of?"}
        /\ source[k][3].type = "TYPE_STRING"}

(* C25: a text predicate with all-captures semantics (eq?, not-eq?,        *)
(* match?, not-match?) accepts a match if and only if every node captured  *)
(* under its capture satisfies the comparison, one with any-capture        *)
(* semantics (any-eq?, any-not-eq?, any-match?, any-not-match?) if and     *)
(* only if at least one such node does, and Next yields only matches that  *)
(* all text predicates of the pattern accept; stated for the patterns      *)
(* whose predicates compare a capture with a literal.                      *)
C25_QuantifiedTextPredicates ==
    (/\ result.op = "Next"
     /\ LiteralComparisons(cursor.query.source) = DOMAIN cursor.query.source)
        => (result.match # Nil
               <=> \A k \in DOMAIN cursor.query.source :
                      Accepts(cursor.query.source[k], cursor.nodes,
                              cursor.match.Captures))

-----------------------------------------------------------------------------
(* C26: a cancellation delivered through the context of one ParseCtx call  *)
(* affects only that call: when an earlier ParseCtx call was cancelled by  *)
(* its context and returned nil, a later ParseCtx call on the same parser, *)
(* whose own context is not cancelled, returns a tree.                     *)
C26_CancellationAffectsOneCall ==
    (/\ result.op = "ParseCtx"
     /\ language # NoLanguage
     /\ threads[Len(threads)].ctx # "cancelled"
     /\ \E i \in 1..(Len(threads) - 1) :
           threads[i].ctx = "cancelled" /\ threads[i].tree = Nil)
        => result.tree # Nil

(* C27: the goroutine that ParseCtx starts never writes the parser's       *)
(* cancellation flag after the Parse call of its ParseCtx has returned, in *)
(* any interleaving of the cancellation of the context with the end of the *)
(* parse.                                                                  *)
C27_NoWriteAfterParseReturned ==
    [][\A i \in DOMAIN threads :
          (threads[i].watcher = "store" /\ threads'[i].watcher = "exit")
             => /\ i = Len(threads)
                /\ threads[i].stage = "go"
                /\ ~(pc = "idle" /\ result # None)]_vars

(* C28: ParseCtx honours the cancellation of its context whether or not    *)
(* the caller has installed a cancellation flag: on a parser without a     *)
(* cancellation flag no goroutine stores through a nil flag pointer.       *)
C28_NoStoreThroughNilFlag ==
    \A i \in DOMAIN threads :
       (cancellation_flag = NULL /\ threads[i].ctx = "cancelled")
          => threads[i].watcher # "panic"

-----------------------------------------------------------------------------
(* C29: every native resource that ParseWithOptions creates for one call   *)
(* (each C string chunk the read callback hands to the lexer, the saved    *)
(* payload handle and the saved ParseOptions handle) is released exactly   *)
(* once by the time the call returns, whether it returns a tree or nil,    *)
(* and no chunk is freed while the native parse of the call can still read *)
(* it.                                                                     *)
C29_ResourcesReleasedOnce ==
    /\ \A b \in DOMAIN cursor.buffers :
          cursor.buffers[b].kind = "chunk"
             => /\ Len(cursor.buffers[b].frees) <= 1
                /\ ~cursor.buffers[b].read
    /\ \A i \in DOMAIN cursor.handles : cursor.handles[i].unrefs <= 1
    /\ cursor.stage = "idle"
          => /\ \A b \in DOMAIN cursor.buffers :
                   cursor.buffers[b].kind = "chunk"
                      => Len(cursor.buffers[b].frees) = 1
             /\ \A i \in DOMAIN cursor.handles : cursor.handles[i].unrefs = 1

(* C30: every buffer is released by the allocator that allocated it, for   *)
(* every allocator configuration installed with SetAllocator (all hooks    *)
(* custom, some hooks nil, all hooks nil); the text chunks the read        *)
(* callback allocates during a parse are never passed to a custom free     *)
(* hook they were not allocated by.                                        *)
C30_ReleasedByItsAllocator ==
    \A b \in DOMAIN cursor.buffers :
       \A i \in DOMAIN cursor.buffers[b].frees :
          cursor.buffers[b].frees[i] = cursor.buffers[b].by

====
